---- MODULE Spec2Model ----
(***************************************************************************)
(* Model of the download manager's orchestration layer:                    *)
(*   backend/models/download.py      (UrlInfo, DownloadTask)               *)
(*   backend/utils/validators.py     (UrlValidator, FileValidator)         *)
(*   backend/services/aria2_service.py    (Aria2Service, the gateway)      *)
(*   backend/services/download_service.py (DownloadService, the facade)    *)
(*                                                                         *)
(* A locator is a sequence of lexical tokens ("http:", "//", a host, a     *)
(* path, ...): prefix, suffix and containment tests of the code are tests  *)
(* on the first, last and any token.  The engine (aria2c) is external: it  *)
(* is a sequence of task records indexed by gid, and every remote call has *)
(* one of three transport outcomes.                                        *)
(***************************************************************************)
EXTENDS Integers, Sequences, FiniteSets, TLC

VARIABLES
    daemon,     \* TRUE iff the aria2c daemon answers on the RPC port
    process,    \* Aria2Service.process: 0 (None) or the launched process handle
    tasks,      \* the engine's task records; tasks[g] is the record of gid g
    op,         \* name of the operation that ran last
    arg,        \* its input
    env,        \* what it returned
    calls,      \* the remote calls it issued, in order
    starts,     \* the number of start_daemon() calls it made
    launches,   \* the number of engine processes it launched
    threads,    \* the locals of the calls that run step by step, per thread
    alive       \* the handles of the launched processes that have not exited

vars == <<daemon, process, tasks, op, arg, env, calls, starts, launches,
          threads, alive>>

(***************************************************************************)
(* Bounds                                                                  *)
(***************************************************************************)
MaxTasks == 2      \* gids the engine hands out in one run
MaxBatch == 3      \* entries of one add_batch_urls request

(***************************************************************************)
(* Option values: None is <<>>, a present value v is <<v>>.                *)
(***************************************************************************)
None == <<>>
Some(v) == <<v>>
IsNone(x) == x = <<>>
Val(x) == x[1]

Has(d, k) == k \in DOMAIN d

(***************************************************************************)
(* Locators as token sequences.                                            *)
(***************************************************************************)
WS == " "

\* str.lower() on one token
Lower(tok) ==
    CASE tok = "MAGNET:" -> "magnet:"
      [] tok = "HTTP:"   -> "http:"
      [] tok = "HTTPS:"  -> "https:"
      [] tok = "Ftp:"    -> "ftp:"
      [] tok = "FTPS:"   -> "ftps:"
      [] tok = ".TORRENT" -> ".torrent"
      [] OTHER -> tok

\* host tokens accepted by the host alternative of both URL patterns:
\* a dotted domain with a 2-6 letter TLD, localhost, or a dotted quad
HostOk(tok) == tok \in {"example.com", "localhost", "10.0.0.1"}

\* port tokens accepted by (?::\d+)?
PortOk(tok) == tok \in {":8080"}

\* tokens that begin with "/" or "?" (the [/?] of the HTTP pattern)
SlashOrQuery(tok) == tok \in {"/", "/f.zip", "/dir/f", "?q=1", "?"}

\* tokens that begin with "/" (the / of the FTP pattern)
Slash(tok) == tok \in {"/", "/f.zip", "/dir/f"}

RECURSIVE LStrip(_)
LStrip(s) == IF s # <<>> /\ Head(s) = WS THEN LStrip(Tail(s)) ELSE s

RECURSIVE RStrip(_)
RStrip(s) ==
    IF s # <<>> /\ s[Len(s)] = WS THEN RStrip(SubSeq(s, 1, Len(s) - 1)) ELSE s

\* str.strip()
Strip(s) == RStrip(LStrip(s))

\* str.startswith(prefix) for a one-token prefix
StartsWith(s, p) == s # <<>> /\ s[1] = p

\* str.endswith(suffix) for a one-token suffix
EndsWith(s, p) == s # <<>> /\ s[Len(s)] = p

\* needle in str
Contains(s, p) == \E i \in 1..Len(s) : s[i] = p

\* str.lower()
LowerAll(s) == [i \in 1..Len(s) |-> Lower(s[i])]

NoSpace(s) == \A i \in 1..Len(s) : s[i] # WS

(***************************************************************************)
(* models/download.py                                                      *)
(***************************************************************************)
MAGNET == "magnet"
HTTP == "http"
HTTPS == "https"
FTP == "ftp"
FTPS == "ftps"
TORRENT == "torrent"

detect_download_type(url) ==
    IF url = <<>> THEN HTTP
    ELSE LET url_lower == LowerAll(url) IN
         IF StartsWith(url_lower, "magnet:") THEN MAGNET
         ELSE IF StartsWith(url_lower, "https:") THEN HTTPS
         ELSE IF StartsWith(url_lower, "http:") THEN HTTP
         ELSE IF StartsWith(url_lower, "ftps:") THEN FTPS
         ELSE IF StartsWith(url_lower, "ftp:") THEN FTP
         ELSE IF EndsWith(url_lower, ".torrent") THEN TORRENT
         ELSE HTTP

\* the part of both patterns after the scheme: "//", host, optional port;
\* yields the index of the first token after it, or 0 when it does not match
AuthorityEnd(url) ==
    IF Len(url) >= 3 /\ url[2] = "//" /\ HostOk(url[3])
    THEN IF Len(url) >= 4 /\ PortOk(url[4]) THEN 5 ELSE 4
    ELSE 0

\* ^https?://(host)(?::\d+)?(?:/?|[/?]\S+)$   with re.IGNORECASE
MatchHttp(url) ==
    /\ url # <<>>
    /\ Lower(url[1]) \in {"http:", "https:"}
    /\ AuthorityEnd(url) # 0
    /\ LET rest == SubSeq(url, AuthorityEnd(url), Len(url)) IN
         \/ rest = <<>>
         \/ SlashOrQuery(rest[1]) /\ NoSpace(rest)

\* ^ftps?://(host)(?::\d+)?(?:/.*)?$   with re.IGNORECASE
MatchFtp(url) ==
    /\ url # <<>>
    /\ Lower(url[1]) \in {"ftp:", "ftps:"}
    /\ AuthorityEnd(url) # 0
    /\ LET rest == SubSeq(url, AuthorityEnd(url), Len(url)) IN
         \/ rest = <<>>
         \/ Slash(rest[1])

validate_url(url, download_type) ==
    IF url = <<>> THEN <<FALSE, "URL cannot be empty">>
    ELSE IF download_type = MAGNET THEN
        IF ~StartsWith(url, "magnet:")
        THEN <<FALSE, "Invalid magnet link format">>
        ELSE IF ~Contains(url, "xt=")
        THEN <<FALSE, "Magnet link missing hash information">>
        ELSE <<TRUE, "">>
    ELSE IF download_type \in {HTTP, HTTPS} THEN
        IF ~MatchHttp(url)
        THEN <<FALSE, "Invalid HTTP/HTTPS URL format">>
        ELSE <<TRUE, "">>
    ELSE IF download_type \in {FTP, FTPS} THEN
        IF ~MatchFtp(url)
        THEN <<FALSE, "Invalid FTP/FTPS URL format">>
        ELSE <<TRUE, "">>
    ELSE <<TRUE, "">>

\* the last "/"-separated piece of one path token
BaseName(tok) ==
    CASE tok = "/" -> ""
      [] tok = "/f.zip" -> "f.zip"
      [] tok = "/dir/f" -> "f"
      [] OTHER -> tok

RECURSIVE PathTokens(_)
PathTokens(s) ==
    IF s = <<>> \/ Head(s) \in {"?", "?q=1"} THEN <<>>
    ELSE <<Head(s)>> \o PathTokens(Tail(s))

\* urlparse(url).path: what follows the scheme and the //netloc, up to the
\* query
UrlPath(url) ==
    IF Len(url) >= 2 /\ url[2] = "//"
    THEN PathTokens(SubSeq(url, IF Len(url) >= 4 /\ PortOk(url[4]) THEN 5 ELSE 4,
                           Len(url)))
    ELSE PathTokens(url)

from_url(raw) ==
    LET url == Strip(raw)
        download_type == detect_download_type(url)
        v == validate_url(url, download_type)
        path == UrlPath(url)
    IN [url |-> url, download_type |-> download_type,
        is_valid |-> v[1], error_message |-> v[2],
        file_name |-> IF download_type \in {HTTP, HTTPS, FTP, FTPS} /\ path # <<>>
                      THEN BaseName(path[Len(path)]) ELSE ""]

(***************************************************************************)
(* utils/validators.py                                                     *)
(***************************************************************************)
validate_magnet(url) ==
    IF ~StartsWith(url, "magnet:")
    THEN <<FALSE, "Invalid magnet link format">>
    ELSE IF ~Contains(url, "xt=")
    THEN <<FALSE, "Magnet link missing hash information">>
    ELSE <<TRUE, "">>

MAX_FILE_SIZE == 10485760

\* a torrent upload: its file name (tokens), its size and its first byte
validate_torrent_file(filename, content) ==
    IF ~EndsWith(LowerAll(filename), ".torrent")
    THEN <<FALSE, "File must have .torrent extension">>
    ELSE IF content.len > MAX_FILE_SIZE
    THEN <<FALSE, "File too large (max 10MB)">>
    ELSE IF content.first # "d"
    THEN <<FALSE, "Invalid torrent file format">>
    ELSE <<TRUE, "">>

RECURSIVE validate_url_list(_)
validate_url_list(urls) ==
    IF urls = <<>> THEN <<>>
    ELSE LET url == Strip(Head(urls)) IN
         IF url = <<>> THEN validate_url_list(Tail(urls))
         ELSE <<from_url(url)>> \o validate_url_list(Tail(urls))

(***************************************************************************)
(* DownloadTask.from_aria2_response: the reconciled task of one engine     *)
(* record.  raised is TRUE where the code raises: an empty files list is   *)
(* indexed at line 61, a counter that is no integer is parsed at 74-75.    *)
(***************************************************************************)
DownloadStatuses == {"waiting", "active", "paused", "complete", "error", "removed"}

\* Config.FILE_CATEGORIES, by extension token
FILE_CATEGORIES ==
    [video |-> {".mp4", ".avi", ".mkv", ".mov", ".wmv", ".flv", ".webm", ".m4v"},
     audio |-> {".mp3", ".wav", ".flac", ".aac", ".ogg", ".wma", ".m4a"},
     image |-> {".jpg", ".jpeg", ".png", ".gif", ".bmp", ".svg", ".webp"},
     document |-> {".pdf", ".doc", ".docx", ".txt", ".rtf", ".odt"},
     archive |-> {".zip", ".rar", ".7z", ".tar", ".gz", ".bz2"},
     software |-> {".exe", ".msi", ".deb", ".rpm", ".dmg", ".pkg"}]

\* a file name is a sequence of tokens, its extension (".zip") the last one
get_file_category(file_name) ==
    IF file_name = <<>> THEN "other"
    ELSE LET file_ext == Lower(file_name[Len(file_name)]) IN
         IF \E c \in DOMAIN FILE_CATEGORIES : file_ext \in FILE_CATEGORIES[c]
         THEN CHOOSE c \in DOMAIN FILE_CATEGORIES : file_ext \in FILE_CATEGORIES[c]
         ELSE "other"

\* path.split('/')[-1]: the tokens after the last "/" token
RECURSIVE LastSegment(_)
LastSegment(path) ==
    IF path = <<>> \/ path[Len(path)] = "/" THEN <<>>
    ELSE Append(LastSegment(SubSeq(path, 1, Len(path) - 1)), path[Len(path)])

\* a counter of an engine record is a string, kept as its sequence of
\* characters
DigitValue(c) ==
    CASE c = "0" -> 0 [] c = "1" -> 1 [] c = "2" -> 2 [] c = "3" -> 3
      [] c = "4" -> 4 [] c = "5" -> 5 [] c = "6" -> 6 [] c = "7" -> 7
      [] c = "8" -> 8 [] c = "9" -> 9

IsDigits(cs) ==
    /\ cs # <<>>
    /\ \A i \in 1..Len(cs) :
          cs[i] \in {"0", "1", "2", "3", "4", "5", "6", "7", "8", "9"}

\* int(s) returns: s is an optional sign followed by digits; it raises
\* ValueError otherwise
IsInt(cs) ==
    /\ cs # <<>>
    /\ IsDigits(IF cs[1] = "-" THEN Tail(cs) ELSE cs)

RECURSIVE ParseNat(_)
ParseNat(cs) ==
    IF cs = <<>> THEN 0
    ELSE 10 * ParseNat(SubSeq(cs, 1, Len(cs) - 1)) + DigitValue(cs[Len(cs)])

\* int(s) of a string for which int returns
ParseInt(cs) ==
    IF cs[1] = "-" THEN 0 - ParseNat(Tail(cs)) ELSE ParseNat(cs)

\* int(aria2_data.get(key, 0))
IntField(aria2_data, key) ==
    IF Has(aria2_data, key) THEN ParseInt(aria2_data[key]) ELSE 0

\* int(aria2_data.get(key, 0)) raises
IntRaises(aria2_data, key) ==
    Has(aria2_data, key) /\ ~IsInt(aria2_data[key])

\* round(x, 1) of x = num / den, in tenths; a tie goes to the even tenth
RoundTenths(num, den) ==
    LET q == (10 * num) \div den
        r == (10 * num) % den
    IN IF 2 * r < den THEN q
       ELSE IF 2 * r > den THEN q + 1
       ELSE IF q % 2 = 0 THEN q ELSE q + 1

\* progress that is not rounded to the tenth but cut
Progress_truncating(total_length, completed_length) ==
    IF total_length > 0
    THEN (10 * completed_length * 100) \div total_length
    ELSE 0

\* progress = 0.0; if total_length > 0: completed / total * 100; rounded to
\* one decimal.  The value is in tenths of a percent.
Progress(total_length, completed_length) ==
    IF total_length > 0
    THEN RoundTenths(completed_length * 100, total_length)
    ELSE 0

from_aria2_response(aria2_data) ==
    IF \/ aria2_data.files = <<>>
       \/ IntRaises(aria2_data, "totalLength")
       \/ IntRaises(aria2_data, "completedLength")
    THEN [raised |-> TRUE]
    ELSE LET uris == aria2_data.files[1].uris
             url == IF uris # <<>> THEN uris[1].uri ELSE <<>>
             file_path == aria2_data.files[1].path
             file_name == LastSegment(file_path)
             total_length == IntField(aria2_data, "totalLength")
             completed_length == IntField(aria2_data, "completedLength")
         IN [raised |-> FALSE,
             total_length |-> total_length,
             completed_length |-> completed_length,
             progress |-> Progress(total_length, completed_length),
             gid |-> aria2_data.gid,
             url |-> url,
             download_type |-> detect_download_type(url),
             status |-> IF aria2_data.status \in DownloadStatuses
                        THEN aria2_data.status ELSE "waiting",
             file_name |-> file_name,
             file_path |-> file_path,
             category |-> get_file_category(file_name)]

to_dict(download) ==
    [gid |-> download.gid, url |-> download.url,
     download_type |-> download.download_type, status |-> download.status,
     total_length |-> download.total_length,
     completed_length |-> download.completed_length,
     progress |-> download.progress,
     file_name |-> download.file_name, file_path |-> download.file_path,
     category |-> download.category]

(***************************************************************************)
(* The engine, as the gateway sees it through the remote interface.        *)
(* Engine(method, params, ts) is the engine's reply to one processed       *)
(* request and its tasks afterwards; a gid is the index of its record, so  *)
(* no gid is handed out twice.                                             *)
(***************************************************************************)
TELL_NUM == 100

Known(ts, gid) == gid \in 1..Len(ts)

SetStatus(ts, gid, st) == [ts EXCEPT ![gid].status = st]

RECURSIVE SelectStatus(_, _)
SelectStatus(ts, sts) ==
    IF ts = <<>> THEN <<>>
    ELSE (IF Head(ts).status \in sts THEN <<Head(ts)>> ELSE <<>>)
         \o SelectStatus(Tail(ts), sts)

Take(s, n) == SubSeq(s, 1, IF Len(s) < n THEN Len(s) ELSE n)

\* the file the engine writes for a task: named after the last path segment
\* of the first uri when that has one, not known yet otherwise
EnginePath(uris) ==
    IF uris # <<>> /\ EndsWith(uris[1], "/f.zip")
    THEN <<"downloads", "/", "f", ".zip">>
    ELSE <<>>

NewRecord(ts, uris) ==
    [gid |-> Len(ts) + 1, status |-> "active",
     files |-> << [uris |-> [i \in 1..Len(uris) |-> [uri |-> uris[i]]],
                   path |-> EnginePath(uris)] >>]

EngineOk(result, ts) == [error |-> FALSE, result |-> result, tasks |-> ts]
EngineError(ts) == [error |-> TRUE, result |-> <<>>, tasks |-> ts]

Engine(method, params, ts) ==
    CASE method = "aria2.getVersion" ->
            EngineOk([version |-> "1.36.0"], ts)
      [] method = "aria2.addUri" ->
            EngineOk(Len(ts) + 1, Append(ts, NewRecord(ts, params[1])))
      [] method = "aria2.addTorrent" ->
            EngineOk(Len(ts) + 1, Append(ts, NewRecord(ts, <<>>)))
      [] method = "aria2.tellStatus" ->
            IF Known(ts, params[1]) THEN EngineOk(ts[params[1]], ts)
            ELSE EngineError(ts)
      [] method = "aria2.tellActive" ->
            EngineOk(SelectStatus(ts, {"active"}), ts)
      [] method = "aria2.tellWaiting" ->
            EngineOk(Take(SelectStatus(ts, {"waiting", "paused"}), params[2]), ts)
      [] method = "aria2.tellStopped" ->
            EngineOk(Take(SelectStatus(ts, {"complete", "error", "removed"}),
                          params[2]), ts)
      [] method = "aria2.pause" ->
            IF Known(ts, params[1]) /\ ts[params[1]].status \in {"active", "waiting"}
            THEN EngineOk(params[1], SetStatus(ts, params[1], "paused"))
            ELSE EngineError(ts)
      [] method = "aria2.unpause" ->
            IF Known(ts, params[1]) /\ ts[params[1]].status = "paused"
            THEN EngineOk(params[1], SetStatus(ts, params[1], "active"))
            ELSE EngineError(ts)
      [] method \in {"aria2.remove", "aria2.forceRemove"} ->
            IF Known(ts, params[1])
               /\ ts[params[1]].status \in {"active", "waiting", "paused"}
            THEN EngineOk(params[1], SetStatus(ts, params[1], "removed"))
            ELSE EngineError(ts)
      [] method = "aria2.getGlobalStat" ->
            EngineOk([numActive |-> Len(SelectStatus(ts, {"active"})),
                      numWaiting |-> Len(SelectStatus(ts, {"waiting", "paused"})),
                      numStopped |-> Len(SelectStatus(ts,
                                         {"complete", "error", "removed"}))], ts)
      [] OTHER -> EngineError(ts)

\* transport outcomes of one remote call: answered; processed by the engine
\* with the response lost or timed out; never delivered
Outcomes == {"ok", "lost", "dropped"}

\* and a response that arrives but is not valid JSON
Transports == Outcomes \cup {"garbled"}

(***************************************************************************)
(* services/aria2_service.py.  A world w is the state an operation runs    *)
(* in and leaves behind: [daemon, process, tasks, calls, starts].          *)
(* Bind(v, F) reads "LET x == v IN F(x)": a local of the code.             *)
(***************************************************************************)
Bind(v, F(_)) == F(v)

Outcome(w, o) == IF w.daemon THEN o ELSE "dropped"

\* Config.ARIA2_RPC_SECRET when the environment sets none
ARIA2_RPC_SECRET == None

\* f"token:{self.rpc_secret}"
Token(rpc_secret) == <<"token:", rpc_secret>>

\* if self.rpc_secret: params.insert(0, token) -- the parameter list sent
Payload(rpc_secret, params) ==
    IF ~IsNone(rpc_secret) /\ Val(rpc_secret) # ""
    THEN <<Token(Val(rpc_secret))>> \o params
    ELSE params

\* the engine has processed the request: the response arrived, or was lost,
\* or was not valid JSON
Delivered(out) == out \in {"ok", "lost", "garbled"}

\* rpc_call that inserts the token twice
rpc_call_double_token(w, method, params, o) ==
    Bind(Outcome(w, o), LAMBDA out :
    Bind(Engine(method, params, w.tasks), LAMBDA reply :
        [result |-> IF out = "ok" /\ ~reply.error THEN Some(reply.result) ELSE None,
         w |-> [w EXCEPT
                  !.tasks = IF Delivered(out) THEN reply.tasks ELSE @,
                  !.calls = Append(@, [method |-> method,
                                       params |-> Payload(w.rpc_secret,
                                                     Payload(w.rpc_secret, params)),
                                       outcome |-> out])]]))

\* rpc_call that returns the payload of an error response
rpc_call_ignoring_error(w, method, params, o) ==
    Bind(Outcome(w, o), LAMBDA out :
    Bind(Engine(method, params, w.tasks), LAMBDA reply :
        [result |-> IF out = "ok" THEN Some(reply.result) ELSE None,
         w |-> [w EXCEPT
                  !.tasks = IF Delivered(out) THEN reply.tasks ELSE @,
                  !.calls = Append(@, [method |-> method,
                                       params |-> Payload(w.rpc_secret, params),
                                       outcome |-> out])]]))

rpc_call(w, method, params, o) ==
    Bind(Outcome(w, o), LAMBDA out :
    Bind(Engine(method, params, w.tasks), LAMBDA reply :
        [result |-> IF out = "ok" /\ ~reply.error THEN Some(reply.result) ELSE None,
         w |-> [w EXCEPT
                  !.tasks = IF Delivered(out) THEN reply.tasks ELSE @,
                  !.calls = Append(@, [method |-> method,
                                       params |-> Payload(w.rpc_secret, params),
                                       outcome |-> out])]]))

\* Python truthiness of an rpc result: a gid, a list, a dict
TruthyGid(r) == ~IsNone(r) /\ Val(r) # 0
TruthyList(r) == ~IsNone(r) /\ Len(Val(r)) # 0
TruthyDict(r) == ~IsNone(r) /\ DOMAIN Val(r) # {}

\* add_uri that repeats the call once when the first yields no handle
add_uri_retrying(w, uris, options, o) ==
    Bind(rpc_call(w, "aria2.addUri", <<uris, options>>, o), LAMBDA r :
        IF TruthyGid(r.result) THEN [result |-> r.result, w |-> r.w]
        ELSE Bind(rpc_call(r.w, "aria2.addUri", <<uris, options>>, o), LAMBDA r2 :
            [result |-> IF TruthyGid(r2.result) THEN r2.result ELSE None,
             w |-> r2.w]))

add_uri(w, uris, options, o) ==
    Bind(rpc_call(w, "aria2.addUri", <<uris, options>>, o), LAMBDA r :
        [result |-> IF TruthyGid(r.result) THEN r.result ELSE None, w |-> r.w])

\* base64.b64encode(torrent_data).decode('utf-8')
b64encode(torrent_data) == <<"base64", torrent_data>>

add_torrent(w, torrent_data, options, o) ==
    Bind(rpc_call(w, "aria2.addTorrent",
                  <<b64encode(torrent_data), <<>>, options>>, o), LAMBDA r :
        [result |-> IF TruthyGid(r.result) THEN r.result ELSE None, w |-> r.w])

is_daemon_running(w, o) ==
    Bind(rpc_call(w, "aria2.getVersion", <<>>, o), LAMBDA r :
        [result |-> ~IsNone(r.result), w |-> r.w])

get_version(w, o) == rpc_call(w, "aria2.getVersion", <<>>, o)

OrEmpty(r) == IF TruthyList(r) THEN Val(r) ELSE <<>>

\* the loop body of Aria2Service.get_downloads: a record that does not parse
\* is skipped
ParseOne(download) == IF download.raised THEN <<>> ELSE <<download>>

RECURSIVE ParseAll(_)
ParseAll(all_downloads) ==
    IF all_downloads = <<>> THEN <<>>
    ELSE ParseOne(from_aria2_response(Head(all_downloads)))
         \o ParseAll(Tail(all_downloads))

\* get_downloads in which one record that does not parse empties the list
gw_get_downloads_failing_whole(w, status, os) ==
    IF status = "all" THEN
        Bind(rpc_call(w, "aria2.tellActive", <<>>, os[1]), LAMBDA a :
        Bind(rpc_call(a.w, "aria2.tellWaiting", <<0, TELL_NUM>>, os[2]), LAMBDA b :
        Bind(rpc_call(b.w, "aria2.tellStopped", <<0, TELL_NUM>>, os[3]), LAMBDA c :
        Bind(OrEmpty(a.result) \o OrEmpty(b.result) \o OrEmpty(c.result), LAMBDA all :
            [result |-> IF Len(ParseAll(all)) = Len(all) THEN ParseAll(all) ELSE <<>>,
             w |-> c.w]))))
    ELSE IF status \in {"active", "waiting", "stopped"} THEN
        Bind(rpc_call(w, CASE status = "active" -> "aria2.tellActive"
                           [] status = "waiting" -> "aria2.tellWaiting"
                           [] status = "stopped" -> "aria2.tellStopped",
                      IF status = "active" THEN <<>> ELSE <<0, TELL_NUM>>, os[1]),
             LAMBDA a :
        Bind(OrEmpty(a.result), LAMBDA all :
            [result |-> IF Len(ParseAll(all)) = Len(all) THEN ParseAll(all) ELSE <<>>,
             w |-> a.w]))
    ELSE [result |-> <<>>, w |-> w]

\* Aria2Service.get_downloads; os are the outcomes of its (up to 3) calls
gw_get_downloads(w, status, os) ==
    IF status = "all" THEN
        Bind(rpc_call(w, "aria2.tellActive", <<>>, os[1]), LAMBDA a :
        Bind(rpc_call(a.w, "aria2.tellWaiting", <<0, TELL_NUM>>, os[2]), LAMBDA b :
        Bind(rpc_call(b.w, "aria2.tellStopped", <<0, TELL_NUM>>, os[3]), LAMBDA c :
            [result |-> ParseAll(OrEmpty(a.result) \o OrEmpty(b.result)
                                 \o OrEmpty(c.result)),
             w |-> c.w])))
    ELSE IF status = "active" THEN
        Bind(rpc_call(w, "aria2.tellActive", <<>>, os[1]), LAMBDA a :
            [result |-> ParseAll(OrEmpty(a.result)), w |-> a.w])
    ELSE IF status = "waiting" THEN
        Bind(rpc_call(w, "aria2.tellWaiting", <<0, TELL_NUM>>, os[1]), LAMBDA a :
            [result |-> ParseAll(OrEmpty(a.result)), w |-> a.w])
    ELSE IF status = "stopped" THEN
        Bind(rpc_call(w, "aria2.tellStopped", <<0, TELL_NUM>>, os[1]), LAMBDA a :
            [result |-> ParseAll(OrEmpty(a.result)), w |-> a.w])
    ELSE [result |-> <<>>, w |-> w]

\* if download_data: return DownloadTask.from_aria2_response(download_data);
\* an exception there is caught and None returned
ParseStatus(result) ==
    IF ~TruthyDict(result) THEN None
    ELSE Bind(from_aria2_response(Val(result)), LAMBDA download :
            IF download.raised THEN None ELSE Some(download))

\* get_download that answers with the task as it was when it was added
gw_get_download_cached(w, gid, o) ==
    Bind(rpc_call(w, "aria2.tellStatus", <<gid>>, o), LAMBDA r :
        [result |-> IF TruthyDict(r.result)
                    THEN Some(from_aria2_response(
                                  NewRecord(SubSeq(w.tasks, 1, gid - 1), <<>>)))
                    ELSE None,
         w |-> r.w])

\* Aria2Service.get_download: None or the reconciled task
gw_get_download(w, gid, o) ==
    Bind(rpc_call(w, "aria2.tellStatus", <<gid>>, o), LAMBDA r :
        [result |-> ParseStatus(r.result), w |-> r.w])

gw_pause_download(w, gid, o) ==
    Bind(rpc_call(w, "aria2.pause", <<gid>>, o), LAMBDA r :
        [result |-> r.result = Some(gid), w |-> r.w])

gw_resume_download(w, gid, o) ==
    Bind(rpc_call(w, "aria2.unpause", <<gid>>, o), LAMBDA r :
        [result |-> r.result = Some(gid), w |-> r.w])

gw_remove_download(w, gid, force, o) ==
    Bind(rpc_call(w, IF force THEN "aria2.forceRemove" ELSE "aria2.remove",
                  <<gid>>, o), LAMBDA r :
        [result |-> r.result = Some(gid), w |-> r.w])

ZeroStats == [active_downloads |-> 0, waiting_downloads |-> 0,
              stopped_downloads |-> 0]

get_stats(w, o) ==
    Bind(rpc_call(w, "aria2.getGlobalStat", <<>>, o), LAMBDA r :
        [result |-> IF TruthyDict(r.result)
                    THEN [active_downloads |-> Val(r.result).numActive,
                          waiting_downloads |-> Val(r.result).numWaiting,
                          stopped_downloads |-> Val(r.result).numStopped]
                    ELSE ZeroStats,
         w |-> r.w])

POLLS == 30

\* the polls of start_daemon's loop, for _ in range(30), when the daemon
\* first answers poll n
Polled(w, n) ==
    [result |-> n <= POLLS,
     w |-> [w EXCEPT
              !.daemon = @ \/ n <= POLLS,
              !.calls = @ \o [i \in 1..(IF n <= POLLS THEN n ELSE POLLS) |->
                                [method |-> "aria2.getVersion",
                                 params |-> Payload(w.rpc_secret, <<>>),
                                 outcome |-> IF i = n THEN "ok" ELSE "dropped"]]]]

\* the daemon leaves the first k polls unanswered
PollDaemon(w, k) == Polled(w, IF w.daemon THEN 1 ELSE k + 1)

\* start_daemon that launches the process before it probes
start_daemon_launching_first(w, o, launchable, k) ==
    Bind(is_daemon_running([w EXCEPT !.starts = @ + 1, !.process = 1,
                               !.launches = @ + 1], o), LAMBDA r :
        IF r.result THEN [result |-> TRUE, w |-> r.w]
        ELSE IF ~launchable THEN [result |-> FALSE, w |-> r.w]
        ELSE PollDaemon(r.w, k))

\* Aria2Service.start_daemon.  launchable: Popen finds and starts aria2c;
\* k: the number of polls the daemon leaves unanswered after the launch.
start_daemon(w, o, launchable, k) ==
    Bind(is_daemon_running([w EXCEPT !.starts = @ + 1], o), LAMBDA r :
        IF r.result THEN [result |-> TRUE, w |-> r.w]
        ELSE IF ~launchable THEN [result |-> FALSE, w |-> r.w]
        ELSE PollDaemon([r.w EXCEPT !.process = 1, !.launches = @ + 1], k))

\* Aria2Service.test_connection
test_connection(w, aria2_available, o, k, o2) ==
    IF ~aria2_available
    THEN [result |-> [aria2c_available |-> FALSE, daemon_running |-> FALSE,
                      rpc_status |-> FALSE],
          w |-> w]
    ELSE Bind(is_daemon_running(w, o), LAMBDA r :
         Bind(IF r.result THEN r ELSE start_daemon(r.w, o, TRUE, k), LAMBDA s :
         Bind(IF s.result THEN get_version(s.w, o2)
              ELSE [result |-> None, w |-> s.w], LAMBDA v :
            [result |-> [aria2c_available |-> TRUE, daemon_running |-> s.result,
                         rpc_status |-> ~IsNone(v.result)],
             w |-> v.w])))

(***************************************************************************)
(* services/download_service.py: every operation yields its envelope and   *)
(* the world it leaves.  i18n.t(key) is written t(key).                    *)
(***************************************************************************)
t(key) == key

Failure(error, error_code) ==
    [success |-> FALSE, error |-> error, error_code |-> error_code]

\* str(n) for a natural number
Digit(d) ==
    CASE d = 0 -> "0" [] d = 1 -> "1" [] d = 2 -> "2" [] d = 3 -> "3"
      [] d = 4 -> "4" [] d = 5 -> "5" [] d = 6 -> "6" [] d = 7 -> "7"
      [] d = 8 -> "8" [] d = 9 -> "9"

RECURSIVE Str(_)
Str(n) == IF n < 10 THEN Digit(n) ELSE Str(n \div 10) \o Digit(n % 10)

\* config/settings.py, with the environment setting none of them
DOWNLOADS_DIR == "downloads"
USER_AGENT == "Universal Download Manager/1.0"
MAX_CONNECTIONS_PER_SERVER == 4
MAX_RETRIES == 3
RETRY_WAIT == 5
DOWNLOAD_TIMEOUT == 60
BT_MAX_PEERS == 50
SEED_RATIO == "1.0"
SEED_TIME == 60
BT_LISTEN_PORT == None

\* options.update(custom_options): the keys of custom_options replace those
\* of options; None and {} update nothing
Update(options, custom_options) ==
    [k \in DOMAIN options \cup DOMAIN custom_options |->
        IF k \in DOMAIN custom_options THEN custom_options[k] ELSE options[k]]

\* the options computed before the overrides are applied
DefaultDownloadOptions(url_info) ==
    ("dir" :> DOWNLOADS_DIR)
    @@ (IF url_info.file_name # "" THEN ("out" :> url_info.file_name) ELSE <<>>)
    @@ ("user-agent" :> USER_AGENT)
    @@ (IF url_info.download_type \in {HTTP, HTTPS}
        THEN ("max-connection-per-server" :> Str(MAX_CONNECTIONS_PER_SERVER))
             @@ ("split" :> Str(MAX_CONNECTIONS_PER_SERVER))
        ELSE IF url_info.download_type \in {FTP, FTPS}
        THEN ("max-connection-per-server" :> "1") @@ ("split" :> "1")
        ELSE <<>>)
    @@ ("timeout" :> Str(DOWNLOAD_TIMEOUT))
    @@ ("max-tries" :> Str(MAX_RETRIES))
    @@ ("retry-wait" :> Str(RETRY_WAIT))

DefaultBtOptions ==
    ("dir" :> DOWNLOADS_DIR)
    @@ ("bt-max-peers" :> Str(BT_MAX_PEERS))
    @@ ("seed-ratio" :> SEED_RATIO)
    @@ ("seed-time" :> Str(SEED_TIME))
    @@ ("enable-dht" :> "true")
    @@ ("enable-peer-exchange" :> "true")
    @@ ("bt-enable-lpd" :> "true")
    @@ (IF ~IsNone(BT_LISTEN_PORT)
        THEN ("listen-port" :> Str(Val(BT_LISTEN_PORT))) ELSE <<>>)

\* _prepare_download_options whose computed values win over the overrides
prepare_download_options_defaults_win(url_info, custom_options) ==
    Update(custom_options, DefaultDownloadOptions(url_info))

prepare_download_options(url_info, custom_options) ==
    Update(DefaultDownloadOptions(url_info), custom_options)

prepare_bt_options(custom_options) ==
    Update(DefaultBtOptions, custom_options)

\* add_url that issues the add call before it looks at the validity
add_url_calling_first(w, url, options, o) ==
    Bind(from_url(url), LAMBDA url_info :
    Bind(add_uri(w, <<url>>, prepare_download_options(url_info, options), o), LAMBDA r :
        IF ~url_info.is_valid
        THEN [env |-> Failure(url_info.error_message, "INVALID_URL"), w |-> r.w]
        ELSE IF ~IsNone(r.result)
        THEN [env |-> [success |-> TRUE, task_id |-> Val(r.result), url |-> url,
                       download_type |-> url_info.download_type],
              w |-> r.w]
        ELSE [env |-> Failure(t("messages.aria2_unavailable"), "ARIA2_ERROR"),
              w |-> r.w]))

\* add_url that reports a missing handle with the validation code
add_url_one_code(w, url, options, o) ==
    Bind(from_url(url), LAMBDA url_info :
        IF ~url_info.is_valid
        THEN [env |-> Failure(url_info.error_message, "INVALID_URL"), w |-> w]
        ELSE Bind(add_uri(w, <<url>>, prepare_download_options(url_info, options), o), LAMBDA r :
            IF ~IsNone(r.result)
            THEN [env |-> [success |-> TRUE, task_id |-> Val(r.result),
                           url |-> url,
                           download_type |-> url_info.download_type],
                  w |-> r.w]
            ELSE [env |-> Failure(t("messages.aria2_unavailable"), "INVALID_URL"),
                  w |-> r.w]))

add_url(w, url, options, o) ==
    Bind(from_url(url), LAMBDA url_info :
        IF ~url_info.is_valid
        THEN [env |-> Failure(url_info.error_message, "INVALID_URL"), w |-> w]
        ELSE Bind(add_uri(w, <<url>>, prepare_download_options(url_info, options), o), LAMBDA r :
            IF ~IsNone(r.result)
            THEN [env |-> [success |-> TRUE, task_id |-> Val(r.result),
                           url |-> url,
                           download_type |-> url_info.download_type],
                  w |-> r.w]
            ELSE [env |-> Failure(t("messages.aria2_unavailable"), "ARIA2_ERROR"),
                  w |-> r.w]))

add_magnet(w, magnet_url, options, o) ==
    Bind(validate_magnet(magnet_url), LAMBDA v :
        IF ~v[1]
        THEN [env |-> Failure(v[2], "INVALID_MAGNET"), w |-> w]
        ELSE Bind(add_uri(w, <<magnet_url>>, prepare_bt_options(options), o), LAMBDA r :
            IF ~IsNone(r.result)
            THEN [env |-> [success |-> TRUE, task_id |-> Val(r.result),
                           url |-> magnet_url, download_type |-> "magnet"],
                  w |-> r.w]
            ELSE [env |-> Failure(t("messages.aria2_unavailable"), "ARIA2_ERROR"),
                  w |-> r.w]))

add_torrent_file(w, file_content, filename, options, o) ==
    Bind(validate_torrent_file(filename, file_content), LAMBDA v :
        IF ~v[1]
        THEN [env |-> Failure(v[2], "INVALID_TORRENT"), w |-> w]
        ELSE Bind(add_torrent(w, file_content, prepare_bt_options(options), o), LAMBDA r :
            IF ~IsNone(r.result)
            THEN [env |-> [success |-> TRUE, task_id |-> Val(r.result),
                           filename |-> filename, download_type |-> "torrent"],
                  w |-> r.w]
            ELSE [env |-> Failure(t("messages.aria2_unavailable"), "ARIA2_ERROR"),
                  w |-> r.w]))

\* the loop body that repeats the add call of an entry that failed
BatchStep_calling_twice(url_info, options, o, acc) ==
    IF url_info.is_valid THEN
        Bind(add_url(acc.w, url_info.url, options, o), LAMBDA first :
        Bind(IF first.env.success THEN first
             ELSE add_url(first.w, url_info.url, options, o), LAMBDA r :
            IF r.env.success
            THEN [success_count |-> acc.success_count + 1,
                  fail_count |-> acc.fail_count,
                  results |-> Append(acc.results,
                      [url |-> url_info.url, success |-> TRUE,
                       task_id |-> r.env.task_id]),
                  w |-> r.w]
            ELSE [success_count |-> acc.success_count,
                  fail_count |-> acc.fail_count + 1,
                  results |-> Append(acc.results,
                      [url |-> url_info.url, success |-> FALSE,
                       error |-> r.env.error]),
                  w |-> r.w]))
    ELSE [success_count |-> acc.success_count,
          fail_count |-> acc.fail_count + 1,
          results |-> Append(acc.results,
              [url |-> url_info.url, success |-> FALSE,
               error |-> url_info.error_message]),
          w |-> acc.w]

\* the loop body that leaves an invalid entry out of fail_count
BatchStep_uncounted_invalid(url_info, options, o, acc) ==
    IF url_info.is_valid THEN
        Bind(add_url(acc.w, url_info.url, options, o), LAMBDA r :
            IF r.env.success
            THEN [success_count |-> acc.success_count + 1,
                  fail_count |-> acc.fail_count,
                  results |-> Append(acc.results,
                      [url |-> url_info.url, success |-> TRUE,
                       task_id |-> r.env.task_id]),
                  w |-> r.w]
            ELSE [success_count |-> acc.success_count,
                  fail_count |-> acc.fail_count + 1,
                  results |-> Append(acc.results,
                      [url |-> url_info.url, success |-> FALSE,
                       error |-> r.env.error]),
                  w |-> r.w])
    ELSE [success_count |-> acc.success_count,
          fail_count |-> acc.fail_count,
          results |-> Append(acc.results,
              [url |-> url_info.url, success |-> FALSE,
               error |-> url_info.error_message]),
          w |-> acc.w]

\* the body of the loop of add_batch_urls for one url_info; acc carries the
\* counters, the results and the world
BatchStep(url_info, options, o, acc) ==
    IF url_info.is_valid THEN
        Bind(add_url(acc.w, url_info.url, options, o), LAMBDA r :
            IF r.env.success
            THEN [success_count |-> acc.success_count + 1,
                  fail_count |-> acc.fail_count,
                  results |-> Append(acc.results,
                      [url |-> url_info.url, success |-> TRUE,
                       task_id |-> r.env.task_id]),
                  w |-> r.w]
            ELSE [success_count |-> acc.success_count,
                  fail_count |-> acc.fail_count + 1,
                  results |-> Append(acc.results,
                      [url |-> url_info.url, success |-> FALSE,
                       error |-> r.env.error]),
                  w |-> r.w])
    ELSE [success_count |-> acc.success_count,
          fail_count |-> acc.fail_count + 1,
          results |-> Append(acc.results,
              [url |-> url_info.url, success |-> FALSE,
               error |-> url_info.error_message]),
          w |-> acc.w]

\* for url_info in url_infos: the counters, results and world after the
\* first n entries, starting in world w
RECURSIVE BatchLoop(_, _, _, _, _)
BatchLoop(url_infos, options, n, os, w) ==
    IF n = 0
    THEN [success_count |-> 0, fail_count |-> 0, results |-> <<>>, w |-> w]
    ELSE BatchStep(url_infos[n], options, os[n],
                   BatchLoop(url_infos, options, n - 1, os, w))

add_batch_urls(w, urls, options, os) ==
    Bind(validate_url_list(urls), LAMBDA url_infos :
        IF url_infos = <<>>
        THEN [env |-> Failure(t("messages.no_urls_found"), "NO_URLS"), w |-> w]
        ELSE Bind(BatchLoop(url_infos, options, Len(url_infos), os, w), LAMBDA acc :
            [env |-> [success |-> acc.success_count > 0,
                      success_count |-> acc.success_count,
                      fail_count |-> acc.fail_count,
                      total_count |-> Len(url_infos),
                      results |-> acc.results],
             w |-> acc.w]))

\* get_downloads that caps the list before it filters by category
get_downloads_capping_first(w, status, category, limit, os) ==
    Bind(gw_get_downloads(w, status, os), LAMBDA r :
        [env |-> [success |-> TRUE,
                  downloads |->
                    LET capped == IF limit > 0
                                  THEN SubSeq(r.result, 1,
                                         IF Len(r.result) < limit
                                         THEN Len(r.result) ELSE limit)
                                  ELSE r.result
                        kept == IF category # ""
                                THEN SelectSeq(capped,
                                       LAMBDA d : d.category = category)
                                ELSE capped
                    IN [i \in 1..Len(kept) |-> to_dict(kept[i])],
                  count |-> Len(SelectSeq(r.result,
                                 LAMBDA d : category = "" \/ d.category = category))],
         w |-> r.w])

RECURSIVE FilterCategory(_, _)
FilterCategory(downloads, category) ==
    IF downloads = <<>> THEN <<>>
    ELSE (IF Head(downloads).category = category THEN <<Head(downloads)>> ELSE <<>>)
         \o FilterCategory(Tail(downloads), category)

\* downloads[:limit] when limit > 0
Limit(downloads, limit) == IF limit > 0 THEN Take(downloads, limit) ELSE downloads

ListEnvelope(downloads) ==
    [success |-> TRUE,
     downloads |-> [i \in 1..Len(downloads) |-> to_dict(downloads[i])],
     count |-> Len(downloads)]

get_downloads(w, status, category, limit, os) ==
    Bind(gw_get_downloads(w, status, os), LAMBDA r :
        [env |-> ListEnvelope(Limit(IF category # ""
                                    THEN FilterCategory(r.result, category)
                                    ELSE r.result, limit)),
         w |-> r.w])

get_download(w, gid, o) ==
    Bind(gw_get_download(w, gid, o), LAMBDA r :
        IF ~IsNone(r.result)
        THEN [env |-> [success |-> TRUE, download |-> to_dict(Val(r.result))],
              w |-> r.w]
        ELSE [env |-> Failure("Download not found", "NOT_FOUND"), w |-> r.w])

pause_download(w, gid, o) ==
    Bind(gw_pause_download(w, gid, o), LAMBDA r :
        IF r.result
        THEN [env |-> [success |-> TRUE,
                       message |-> t("messages.download_paused")],
              w |-> r.w]
        ELSE [env |-> Failure("Failed to pause download", "PAUSE_FAILED"),
              w |-> r.w])

resume_download(w, gid, o) ==
    Bind(gw_resume_download(w, gid, o), LAMBDA r :
        IF r.result
        THEN [env |-> [success |-> TRUE,
                       message |-> t("messages.download_resumed")],
              w |-> r.w]
        ELSE [env |-> Failure("Failed to resume download", "RESUME_FAILED"),
              w |-> r.w])

remove_download(w, gid, force, o) ==
    Bind(gw_remove_download(w, gid, force, o), LAMBDA r :
        IF r.result
        THEN [env |-> [success |-> TRUE,
                       message |-> t("messages.download_removed")],
              w |-> r.w]
        ELSE [env |-> Failure("Failed to remove download", "REMOVE_FAILED"),
              w |-> r.w])

\* retry_download that returns the handle it was given
retry_download_same_handle(w, gid, os) ==
    Bind(gw_get_download(w, gid, os[1]), LAMBDA g :
        IF IsNone(g.result)
        THEN [env |-> Failure("Download not found", "NOT_FOUND"), w |-> g.w]
        ELSE
        Bind(Val(g.result), LAMBDA download :
        Bind(gw_remove_download(g.w, gid, TRUE, os[2]), LAMBDA rm :
        Bind(IF download.download_type = MAGNET
             THEN add_magnet(rm.w, download.url, None, os[3])
             ELSE add_url(rm.w, download.url, None, os[3]), LAMBDA result :
            IF result.env.success
            THEN [env |-> [success |-> TRUE, task_id |-> gid,
                           message |-> t("messages.download_started")],
                  w |-> result.w]
            ELSE result))))

\* retry_download that force-removes before it looks the task up
retry_download_removing_first(w, gid, os) ==
    Bind(gw_get_download(w, gid, os[1]), LAMBDA g :
    Bind(gw_remove_download(g.w, gid, TRUE, os[2]), LAMBDA rm :
        IF IsNone(g.result)
        THEN [env |-> Failure("Download not found", "NOT_FOUND"), w |-> rm.w]
        ELSE
        Bind(Val(g.result), LAMBDA download :
        Bind(IF download.download_type = MAGNET
             THEN add_magnet(rm.w, download.url, None, os[3])
             ELSE add_url(rm.w, download.url, None, os[3]), LAMBDA result :
            IF result.env.success
            THEN [env |-> [success |-> TRUE, task_id |-> result.env.task_id,
                           message |-> t("messages.download_started")],
                  w |-> result.w]
            ELSE result))))

\* os: the outcomes of the status query, the force-remove and the re-add
retry_download(w, gid, os) ==
    Bind(gw_get_download(w, gid, os[1]), LAMBDA g :
        IF IsNone(g.result)
        THEN [env |-> Failure("Download not found", "NOT_FOUND"), w |-> g.w]
        ELSE
        Bind(Val(g.result), LAMBDA download :
        Bind(gw_remove_download(g.w, gid, TRUE, os[2]), LAMBDA rm :
        Bind(IF download.download_type = MAGNET
             THEN add_magnet(rm.w, download.url, None, os[3])
             ELSE add_url(rm.w, download.url, None, os[3]), LAMBDA result :
            IF result.env.success
            THEN [env |-> [success |-> TRUE, task_id |-> result.env.task_id,
                           message |-> t("messages.download_started")],
                  w |-> result.w]
            ELSE result))))

get_statistics(w, o) ==
    Bind(get_stats(w, o), LAMBDA r :
        [env |-> [success |-> TRUE, statistics |-> r.result], w |-> r.w])

(***************************************************************************)
(* Inputs                                                                  *)
(***************************************************************************)
UrlHttp == <<"http:", "//", "example.com", "/f.zip">>
UrlBadHost == <<"https:", "//", "bad_host">>
UrlMagnet == <<"magnet:", "?", "xt=", "urn:btih:ABC">>
UrlMagnetNoHash == <<"magnet:", "?", "dn=foo">>
UrlMagnetUpper == <<"MAGNET:", "?", "xt=", "urn:btih:ABC">>
UrlTorrentName == <<"foo", ".torrent">>
UrlPlain == <<"foo">>
UrlBlank == <<WS>>
UrlEmpty == <<>>

Locators == {UrlHttp, UrlBadHost, UrlMagnet, UrlMagnetNoHash, UrlMagnetUpper,
             UrlTorrentName, UrlEmpty}

BatchLocators == {UrlHttp, UrlMagnet, UrlPlain, UrlBlank}

TorrentUploads ==
    {[filename |-> <<"a", ".torrent">>, content |-> [len |-> 5, first |-> "d"]],
     [filename |-> <<"a", ".txt">>, content |-> [len |-> 5, first |-> "d"]],
     [filename |-> <<"a", ".torrent">>,
      content |-> [len |-> MAX_FILE_SIZE + 1, first |-> "d"]],
     [filename |-> <<"a", ".torrent">>, content |-> [len |-> 5, first |-> "x"]]}

\* the options of a request: none, or overrides of which some collide with
\* computed keys
CustomOptions == {None, ("dir" :> "/data") @@ ("split" :> "8")}

Gids == 1..(MaxTasks + 1)

ListStatuses == {"all", "active", "waiting", "stopped", "finished"}

\* the default (no category, limit 100) and a filtered, capped listing
ListFilters == {[category |-> "", limit |-> TELL_NUM],
                [category |-> "other", limit |-> 1],
                [category |-> "archive", limit |-> 0]}

SeqsUpTo(S, n) == UNION {[1..m -> S] : m \in 0..n}

(***************************************************************************)
(* State machine                                                           *)
(***************************************************************************)
FacadeOps == {"add_url", "add_magnet", "add_torrent_file", "add_batch_urls",
              "get_downloads", "get_download", "pause_download",
              "resume_download", "remove_download", "retry_download",
              "get_statistics"}

\* the world an operation starts in
W == [daemon |-> daemon, process |-> process, tasks |-> tasks,
      calls |-> <<>>, starts |-> 0, launches |-> 0,
      rpc_secret |-> ARIA2_RPC_SECRET]

\* outcomes a remote call can have now: any when the daemon runs, none but
\* "dropped" when nothing listens; a query changes nothing, so for a query a
\* lost response is a dropped request
CallOutcomes == IF daemon THEN Outcomes ELSE {"dropped"}
QueryOutcomes == IF daemon THEN {"ok", "dropped"} ELSE {"dropped"}

\* the number of remote calls Aria2Service.get_downloads makes
ListCalls(status) ==
    IF status = "all" THEN 3
    ELSE IF status \in {"active", "waiting", "stopped"} THEN 1 ELSE 0

\* an operation named name is requested on input a while no other runs; it
\* yields r: the envelope r.env and the world r.w
Ran(name, a, r) ==
    /\ op = "idle"
    /\ Len(r.w.tasks) <= MaxTasks
    /\ op' = name
    /\ arg' = a
    /\ env' = r.env
    /\ daemon' = r.w.daemon
    /\ process' = r.w.process
    /\ tasks' = r.w.tasks
    /\ calls' = r.w.calls
    /\ starts' = r.w.starts
    /\ launches' = r.w.launches
    /\ UNCHANGED <<threads, alive>>

\* the state that initialize_services() leaves, r being what its
\* start_daemon() yields
Started(r) ==
    /\ op = "initialize_services"
    /\ arg = <<>>
    /\ env = [result |-> r.result]
    /\ daemon = r.w.daemon
    /\ process = r.w.process
    /\ tasks = r.w.tasks
    /\ calls = r.w.calls
    /\ starts = r.w.starts
    /\ launches = r.w.launches
    /\ threads = <<>>
    /\ alive = {}

\* create_app() -> initialize_services(): one start_daemon() at construction
Init ==
    \E d \in BOOLEAN, launchable \in BOOLEAN, k \in {0, 1, POLLS} :
        Started(start_daemon([daemon |-> d, process |-> 0, tasks |-> <<>>,
                              calls |-> <<>>, starts |-> 0, launches |-> 0,
                              rpc_secret |-> ARIA2_RPC_SECRET],
                             "ok", launchable, k))

\* a gateway result r as the value an operation returns
Returned(r) == [env |-> r.result, w |-> r.w]

AddUrl ==
    \E url \in Locators, options \in CustomOptions, o \in CallOutcomes :
        Ran("add_url", [url |-> url, options |-> options],
            add_url(W, url, options, o))

AddMagnet ==
    \E url \in Locators, options \in CustomOptions, o \in CallOutcomes :
        Ran("add_magnet", [url |-> url, options |-> options],
            add_magnet(W, url, options, o))

AddTorrentFile ==
    \E f \in TorrentUploads, options \in CustomOptions, o \in CallOutcomes :
        Ran("add_torrent_file",
            [filename |-> f.filename, content |-> f.content, options |-> options],
            add_torrent_file(W, f.content, f.filename, options, o))

\* among the other operations a batch has at most one locator; SpecBatch
\* runs the batches of up to MaxBatch locators
AddBatchUrls ==
    \E urls \in SeqsUpTo(BatchLocators, 1), options \in CustomOptions :
      \E os \in [1..Len(urls) -> CallOutcomes] :
        Ran("add_batch_urls", [urls |-> urls, options |-> options],
            add_batch_urls(W, urls, options, os))

\* the envelope and the world of a batch are computed once per request
AddLongBatch ==
    /\ op = "idle"
    /\ \E urls \in SeqsUpTo(BatchLocators, MaxBatch), options \in CustomOptions :
         \E os \in [1..Len(urls) -> CallOutcomes] :
           \E r \in {add_batch_urls(W, urls, options, os)} :
             Ran("add_batch_urls", [urls |-> urls, options |-> options], r)

GetDownloads ==
    \E status \in ListStatuses, f \in ListFilters :
      \E os \in [1..ListCalls(status) -> QueryOutcomes] :
        Ran("get_downloads",
            [status |-> status, category |-> f.category, limit |-> f.limit],
            get_downloads(W, status, f.category, f.limit, os))

GetDownload ==
    \E gid \in Gids, o \in QueryOutcomes :
        Ran("get_download", [gid |-> gid], get_download(W, gid, o))

PauseDownload ==
    \E gid \in Gids, o \in CallOutcomes :
        Ran("pause_download", [gid |-> gid], pause_download(W, gid, o))

ResumeDownload ==
    \E gid \in Gids, o \in CallOutcomes :
        Ran("resume_download", [gid |-> gid], resume_download(W, gid, o))

RemoveDownload ==
    \E gid \in Gids, force \in BOOLEAN, o \in CallOutcomes :
        Ran("remove_download", [gid |-> gid, force |-> force],
            remove_download(W, gid, force, o))

RetryDownload ==
    \E gid \in Gids, o1 \in QueryOutcomes, o2 \in CallOutcomes, o3 \in CallOutcomes :
      LET os == <<o1, o2, o3>> IN
        Ran("retry_download", [gid |-> gid], retry_download(W, gid, os))

GetStatistics ==
    \E o \in QueryOutcomes :
        Ran("get_statistics", <<>>, get_statistics(W, o))

TestConnection ==
    \E aria2_available \in BOOLEAN, o \in QueryOutcomes, k \in {0, 1, POLLS},
       o2 \in {"ok", "dropped"} :
        Ran("test_connection", <<>>,
            Returned(test_connection(W, aria2_available, o, k, o2)))

\* the boundary layer hands the result to the caller
Reply ==
    /\ op # "idle"
    /\ op' = "idle"
    /\ arg' = <<>>
    /\ env' = <<>>
    /\ calls' = <<>>
    /\ starts' = 0
    /\ launches' = 0
    /\ UNCHANGED <<daemon, process, tasks, threads, alive>>

\* the daemon dies or is stopped from outside; its session keeps the tasks
DaemonStops ==
    /\ op = "idle"
    /\ daemon
    /\ daemon' = FALSE
    /\ UNCHANGED <<process, tasks, op, arg, env, calls, starts, launches,
                   threads, alive>>

\* a daemon comes up outside any start_daemon() window
DaemonComesUp ==
    /\ op = "idle"
    /\ ~daemon
    /\ daemon' = TRUE
    /\ UNCHANGED <<process, tasks, op, arg, env, calls, starts, launches,
                   threads, alive>>

Next ==
    \/ AddUrl
    \/ AddMagnet
    \/ AddTorrentFile
    \/ AddBatchUrls
    \/ GetDownloads
    \/ GetDownload
    \/ PauseDownload
    \/ ResumeDownload
    \/ RemoveDownload
    \/ RetryDownload
    \/ GetStatistics
    \/ TestConnection
    \/ Reply
    \/ DaemonStops
    \/ DaemonComesUp

Spec == Init /\ [][Next]_vars

\* the secrets a deployment may configure: none, the empty string, a secret
Secrets == {None, Some(""), Some("s3cret")}

\* requests as the gateway's operations issue them
RpcRequests ==
    {[method |-> "aria2.getVersion", params |-> <<>>],
     [method |-> "aria2.addUri", params |-> <<<<UrlHttp>>, DefaultBtOptions>>],
     [method |-> "aria2.tellWaiting", params |-> <<0, TELL_NUM>>],
     [method |-> "aria2.tellStatus", params |-> <<1>>],
     [method |-> "aria2.pause", params |-> <<1>>],
     [method |-> "aria2.unpause", params |-> <<1>>],
     [method |-> "aria2.forceRemove", params |-> <<MaxTasks + 1>>]}

\* one Aria2Service.rpc_call, by a service constructed with the secret
RpcCall ==
    \E rpc_secret \in Secrets, m \in RpcRequests,
       o \in (IF daemon THEN Transports ELSE {"dropped"}) :
        Ran("rpc_call",
            [method |-> m.method, params |-> m.params, rpc_secret |-> rpc_secret],
            Returned(rpc_call([W EXCEPT !.rpc_secret = rpc_secret],
                              m.method, m.params, o)))

\* one Aria2Service.start_daemon
StartDaemon ==
    \E o \in QueryOutcomes, launchable \in BOOLEAN, k \in {0, 1, POLLS} :
        Ran("start_daemon", <<>>,
            [env |-> [result |-> start_daemon(W, o, launchable, k).result],
             w |-> start_daemon(W, o, launchable, k).w])

\* two start_daemon calls in sequence
StartDaemonTwice ==
    \E o1 \in QueryOutcomes, o2 \in {"ok", "dropped"}, launchable \in BOOLEAN,
       k \in {0, 1, POLLS} :
        Ran("start_daemon_twice", <<>>,
            Bind(start_daemon(W, o1, launchable, k), LAMBDA first :
            Bind(start_daemon(first.w, o2, launchable, k), LAMBDA second :
                [env |-> [first |-> first.result, second |-> second.result],
                 w |-> second.w])))

\* the gateway on its own: Aria2Service driven directly
NextGateway ==
    \/ RpcCall
    \/ StartDaemon
    \/ StartDaemonTwice
    \/ Reply
    \/ DaemonStops
    \/ DaemonComesUp

SpecGateway == Init /\ [][NextGateway]_vars

\* locators for the classifier: every scheme in lower and upper case, with a
\* host the grammar accepts or rejects, with and without a path, a port, a
\* query, a .torrent suffix; magnet links; strings without a scheme
Schemes == {"http:", "HTTP:", "https:", "HTTPS:", "ftp:", "Ftp:", "ftps:",
            "FTPS:"}
Rests == {<<>>, <<"/">>, <<"/f.zip">>, <<":8080", "/dir/f">>, <<"?q=1">>,
          <<"/dir/f", ".torrent">>, <<"/f.zip", WS, "x">>}
ClassifierInputs ==
    {<<sch, "//", host>> \o rest :
        sch \in Schemes, host \in {"example.com", "localhost", "bad_host"},
        rest \in Rests}
    \cup {UrlMagnet, UrlMagnetNoHash, UrlMagnetUpper, UrlTorrentName, UrlPlain,
          UrlBlank, UrlEmpty, <<"foo", ".TORRENT">>, <<WS>> \o UrlHttp \o <<WS>>,
          <<"http:", "example.com">>}

\* the overrides of a request: every set of keys among three the builders
\* compute and one they do not
OverrideKeys == {"dir", "split", "max-connection-per-server", "header"}
Overrides == {[k \in K |-> "custom"] : K \in SUBSET OverrideKeys}

\* byte counters as the engine reports them: decimal strings
RECURSIVE Digits(_)
Digits(n) ==
    IF n < 0 THEN <<"-">> \o Digits(0 - n)
    ELSE IF n < 10 THEN <<Digit(n)>>
    ELSE Append(Digits(n \div 10), Digit(n % 10))

MaxLength == 9
Lengths == (0..MaxLength) \cup {50, 200}

\* counters of a record: lengths, a negative number, a string that is no
\* number
Counters == {Digits(n) : n \in Lengths \cup {0 - 5}} \cup {<<"N", "a", "N">>}

EngineRecords ==
    {[gid |-> 1, status |-> "active",
      files |-> <<[uris |-> <<[uri |-> UrlHttp]>>, path |-> <<>>]>>,
      totalLength |-> total, completedLength |-> completed] :
        total \in Counters, completed \in Counters}
    \cup {[gid |-> 1, status |-> "waiting",
           files |-> <<[uris |-> <<>>, path |-> <<>>]>>],
          [gid |-> 1, status |-> "waiting", files |-> <<>>]}

\* the classifier applied to a locator, outside any request
FromUrl ==
    \E url \in ClassifierInputs :
        /\ op' = "from_url"
        /\ arg' = [url |-> url]
        /\ env' = from_url(url)
        /\ UNCHANGED <<daemon, process, tasks, calls, starts, launches,
                       threads, alive>>

\* _prepare_download_options applied to a classified locator and overrides
PrepareDownloadOptions ==
    \E url \in {UrlHttp, <<"HTTPS:", "//", "localhost", "/">>,
                 <<"ftp:", "//", "example.com", "/f.zip">>,
                 <<"FTPS:", "//", "example.com">>, UrlMagnet, UrlTorrentName},
       custom_options \in Overrides :
        /\ op' = "prepare_download_options"
        /\ arg' = [url_info |-> from_url(url), custom_options |-> custom_options]
        /\ env' = prepare_download_options(from_url(url), custom_options)
        /\ UNCHANGED <<daemon, process, tasks, calls, starts, launches,
                       threads, alive>>

\* _prepare_bt_options applied to overrides
PrepareBtOptions ==
    \E custom_options \in Overrides :
        /\ op' = "prepare_bt_options"
        /\ arg' = [custom_options |-> custom_options]
        /\ env' = prepare_bt_options(custom_options)
        /\ UNCHANGED <<daemon, process, tasks, calls, starts, launches,
                       threads, alive>>

\* from_aria2_response applied to a record of the engine
FromAria2Response ==
    \E aria2_data \in EngineRecords :
        /\ op' = "from_aria2_response"
        /\ arg' = aria2_data
        /\ env' = from_aria2_response(aria2_data)
        /\ UNCHANGED <<daemon, process, tasks, calls, starts, launches,
                       threads, alive>>

InitFunctions ==
    /\ op = "idle"
    /\ arg = <<>>
    /\ env = <<>>
    /\ daemon = FALSE
    /\ process = 0
    /\ tasks = <<>>
    /\ calls = <<>>
    /\ starts = 0
    /\ launches = 0
    /\ threads = <<>>
    /\ alive = {}

NextFunctions ==
    \/ FromUrl
    \/ PrepareDownloadOptions
    \/ PrepareBtOptions
    \/ FromAria2Response

\* the classifier, the option builders and the reconciler applied to inputs
SpecFunctions == InitFunctions /\ [][NextFunctions]_vars

(***************************************************************************)
(* Aria2Service.start_daemon and stop_daemon step by step, called by the   *)
(* threads of the server (app.run(threaded=True)) on the one gateway.      *)
(* threads[th] holds the locals of the call thread th makes; a step is    *)
(* one remote call, one Popen, one poll() test or one signal.              *)
(***************************************************************************)
Threads == {1, 2}

\* the locals of a thread that has not called yet
NoCall ==
    [call |-> "none", pc |-> "idle", polls |-> 0, launched |-> 0,
     last |-> "none", trace |-> <<>>, raised |-> FALSE, result |-> None]

\* thread th goes on with the locals given
Goes(th, locals) == threads' = [threads EXCEPT ![th] = locals]

\* return value: the call of thread th is over
Returns(th, locals, value) ==
    Goes(th, [locals EXCEPT !.pc = "done", !.result = Some(value)])

\* outcomes of a health probe now
ProbeOutcomes == IF daemon THEN {"ok", "dropped"} ELSE {"dropped"}

\* a thread enters start_daemon
CallStart ==
    \E th \in Threads :
        /\ threads[th].pc = "idle"
        /\ Goes(th, [threads[th] EXCEPT !.call = "start", !.pc = "probe"])
        /\ UNCHANGED <<daemon, process, tasks, op, arg, env, calls, starts,
                       launches, alive>>

\* if self.is_daemon_running(): return True
StartProbe ==
    \E th \in Threads, o \in ProbeOutcomes :
        /\ threads[th].call = "start"
        /\ threads[th].pc = "probe"
        /\ IF is_daemon_running(W, o).result
           THEN Returns(th, [threads[th] EXCEPT !.last = "ok"], TRUE)
           ELSE Goes(th, [threads[th] EXCEPT !.pc = "launch"])
        /\ UNCHANGED <<daemon, process, tasks, op, arg, env, calls, starts,
                       launches, alive>>

\* the try block up to self.process = subprocess.Popen(...): mkdir, touch
\* or Popen raises (launchable is FALSE) and the call returns False, or the
\* process is launched and its handle stored
StartLaunch ==
    \E th \in Threads, launchable \in BOOLEAN :
        /\ threads[th].call = "start"
        /\ threads[th].pc = "launch"
        /\ IF ~launchable
           THEN /\ Returns(th, [threads[th] EXCEPT !.raised = TRUE], FALSE)
                /\ UNCHANGED <<process, launches, alive>>
           ELSE /\ process' = launches + 1
                /\ launches' = launches + 1
                /\ alive' = alive \cup {launches + 1}
                /\ Goes(th, [threads[th] EXCEPT !.pc = "poll", !.launched = @ + 1])
        /\ UNCHANGED <<daemon, tasks, op, arg, env, calls, starts>>

\* StartPoll that polls once more than the window
StartPoll_one_more ==
    \E th \in Threads, o \in ProbeOutcomes :
        /\ threads[th].call = "start"
        /\ threads[th].pc = "poll"
        /\ IF is_daemon_running(W, o).result
           THEN Returns(th, [threads[th] EXCEPT !.polls = @ + 1, !.last = "ok"], TRUE)
           ELSE IF threads[th].polls + 1 <= POLLS
           THEN Goes(th, [threads[th] EXCEPT !.polls = @ + 1, !.last = "none"])
           ELSE Returns(th, [threads[th] EXCEPT !.polls = @ + 1, !.last = "none"],
                        FALSE)
        /\ UNCHANGED <<daemon, process, tasks, op, arg, env, calls, starts,
                       launches, alive>>

\* one turn of for _ in range(30): time.sleep(1); if is_daemon_running():
\* return True -- and return False after the last turn
StartPoll ==
    \E th \in Threads, o \in ProbeOutcomes :
        /\ threads[th].call = "start"
        /\ threads[th].pc = "poll"
        /\ IF is_daemon_running(W, o).result
           THEN Returns(th, [threads[th] EXCEPT !.polls = @ + 1, !.last = "ok"], TRUE)
           ELSE IF threads[th].polls + 1 < POLLS
           THEN Goes(th, [threads[th] EXCEPT !.polls = @ + 1, !.last = "none"])
           ELSE Returns(th, [threads[th] EXCEPT !.polls = @ + 1, !.last = "none"],
                        FALSE)
        /\ UNCHANGED <<daemon, process, tasks, op, arg, env, calls, starts,
                       launches, alive>>

\* a launched aria2c binds the RPC port and answers
EngineBoots ==
    /\ ~daemon
    /\ launches > 0
    /\ \E th \in Threads : threads[th].pc = "poll"
    /\ daemon' = TRUE
    /\ UNCHANGED <<process, tasks, op, arg, env, calls, starts, launches,
                   threads, alive>>

\* a launched process exits: aria2c --daemon forks and its parent returns,
\* or it fails to start, or a signal ends it
ProcessExits ==
    \E h \in alive :
        /\ alive' = alive \ {h}
        /\ UNCHANGED <<daemon, process, tasks, op, arg, env, calls, starts,
                       launches, threads>>

\* a thread enters stop_daemon
CallStop ==
    \E th \in Threads :
        /\ threads[th].pc = "idle"
        /\ Goes(th, [threads[th] EXCEPT !.call = "stop", !.pc = "probe"])
        /\ UNCHANGED <<daemon, process, tasks, op, arg, env, calls, starts,
                       launches, alive>>

\* if self.is_daemon_running():
StopProbe ==
    \E th \in Threads, o \in ProbeOutcomes :
        /\ threads[th].call = "stop"
        /\ threads[th].pc = "probe"
        /\ IF is_daemon_running(W, o).result
           THEN Goes(th, [threads[th] EXCEPT !.pc = "shutdown", !.last = "ok",
                            !.trace = Append(@, "aria2.getVersion")])
           ELSE Goes(th, [threads[th] EXCEPT !.pc = "check",
                            !.trace = Append(@, "aria2.getVersion")])
        /\ UNCHANGED <<daemon, process, tasks, op, arg, env, calls, starts,
                       launches, alive>>

\* try: self.rpc_call("aria2.shutdown"); time.sleep(2) except: pass
\* A delivered request makes the daemon exit, within the wait or after it.
StopShutdown ==
    \E th \in Threads, o \in (IF daemon THEN Outcomes ELSE {"dropped"}),
       halted \in BOOLEAN :
        /\ threads[th].call = "stop"
        /\ threads[th].pc = "shutdown"
        /\ daemon' = (daemon /\ ~(Delivered(o) /\ halted))
        /\ Goes(th, [threads[th] EXCEPT !.pc = "check",
                       !.trace = Append(@, "aria2.shutdown")])
        /\ UNCHANGED <<process, tasks, op, arg, env, calls, starts, launches,
                       alive>>

\* StopCheck that goes for the kill signal at once
StopCheck_killing_first ==
    \E th \in Threads :
        /\ threads[th].call = "stop"
        /\ threads[th].pc = "check"
        /\ IF process # 0 /\ process \in alive
           THEN Goes(th, [threads[th] EXCEPT !.pc = "kill"])
           ELSE Returns(th, threads[th], TRUE)
        /\ UNCHANGED <<daemon, process, tasks, op, arg, env, calls, starts,
                       launches, alive>>

\* if self.process and self.process.poll() is None: ... return True
StopCheck ==
    \E th \in Threads :
        /\ threads[th].call = "stop"
        /\ threads[th].pc = "check"
        /\ IF process # 0 /\ process \in alive
           THEN Goes(th, [threads[th] EXCEPT !.pc = "term"])
           ELSE Returns(th, threads[th], TRUE)
        /\ UNCHANGED <<daemon, process, tasks, op, arg, env, calls, starts,
                       launches, alive>>

\* os.killpg(os.getpgid(self.process.pid), signal.SIGTERM); time.sleep(2)
\* getpgid raises when the process has exited since the poll() test, and
\* the call returns False
StopTerm ==
    \E th \in Threads :
        /\ threads[th].call = "stop"
        /\ threads[th].pc = "term"
        /\ IF process \in alive
           THEN Goes(th, [threads[th] EXCEPT !.pc = "check2",
                            !.trace = Append(@, "SIGTERM")])
           ELSE Returns(th, [threads[th] EXCEPT !.raised = TRUE], FALSE)
        /\ UNCHANGED <<daemon, process, tasks, op, arg, env, calls, starts,
                       launches, alive>>

\* if self.process.poll() is None:
StopCheck2 ==
    \E th \in Threads :
        /\ threads[th].call = "stop"
        /\ threads[th].pc = "check2"
        /\ IF process \in alive
           THEN Goes(th, [threads[th] EXCEPT !.pc = "kill"])
           ELSE Returns(th, threads[th], TRUE)
        /\ UNCHANGED <<daemon, process, tasks, op, arg, env, calls, starts,
                       launches, alive>>

\* os.killpg(os.getpgid(self.process.pid), signal.SIGKILL); return True
StopKill ==
    \E th \in Threads :
        /\ threads[th].call = "stop"
        /\ threads[th].pc = "kill"
        /\ IF process \in alive
           THEN /\ Returns(th, [threads[th] EXCEPT !.trace = Append(@, "SIGKILL")],
                           TRUE)
                /\ alive' = alive \ {process}
           ELSE /\ Returns(th, [threads[th] EXCEPT !.raised = TRUE], FALSE)
                /\ alive' = alive
        /\ UNCHANGED <<daemon, process, tasks, op, arg, env, calls, starts,
                       launches>>

\* a fresh gateway; a daemon of an earlier run may be listening
InitLifecycle ==
    /\ daemon \in BOOLEAN
    /\ process = 0
    /\ tasks = <<>>
    /\ op = "idle"
    /\ arg = <<>>
    /\ env = <<>>
    /\ calls = <<>>
    /\ starts = 0
    /\ launches = 0
    /\ threads = [th \in Threads |-> NoCall]
    /\ alive = {}

StartStep == StartProbe \/ StartLaunch \/ StartPoll

StopStep ==
    StopProbe \/ StopShutdown \/ StopCheck \/ StopTerm \/ StopCheck2 \/ StopKill

NextLifecycle ==
    \/ CallStart
    \/ StartProbe
    \/ StartLaunch
    \/ StartPoll
    \/ EngineBoots
    \/ ProcessExits
    \/ CallStop
    \/ StopProbe
    \/ StopShutdown
    \/ StopCheck
    \/ StopTerm
    \/ StopCheck2
    \/ StopKill

SpecLifecycle == InitLifecycle /\ [][NextLifecycle]_vars

\* a call that was entered runs on: every step of it returns within its
\* timeout (30 s per remote call, 1 or 2 s per sleep)
SpecLifecycleFair ==
    SpecLifecycle /\ WF_vars(StartStep) /\ WF_vars(StopStep)

\* what the engine does to a task on its own: it downloads a part of it,
\* completes it, or reports it in a shape the reconciler cannot read
Advances == {"progress", "complete", "garbled", "nofiles"}

Fresh(rec) == ~Has(rec, "totalLength") /\ rec.files # <<>>

CanAdvance(rec, kind) ==
    CASE kind = "progress" -> Fresh(rec) /\ rec.status = "active"
      [] kind = "complete" -> /\ Has(rec, "totalLength")
                              /\ rec.status = "active"
                              /\ IsInt(rec.totalLength)
      [] kind \in {"garbled", "nofiles"} -> Fresh(rec)

Advanced(rec, kind) ==
    CASE kind = "progress" ->
            Update(rec, [totalLength |-> Digits(200), completedLength |-> Digits(50)])
      [] kind = "complete" ->
            Update(rec, [status |-> "complete", completedLength |-> rec.totalLength])
      [] kind = "garbled" ->
            Update(rec, [totalLength |-> <<"N", "a", "N">>,
                         completedLength |-> Digits(0)])
      [] kind = "nofiles" ->
            Update(rec, [files |-> <<>>])

\* the engine works on a task between two requests
EngineAdvances ==
    \E gid \in 1..Len(tasks), kind \in Advances :
        /\ op = "idle"
        /\ daemon
        /\ CanAdvance(tasks[gid], kind)
        /\ tasks' = [tasks EXCEPT ![gid] = Advanced(tasks[gid], kind)]
        /\ UNCHANGED <<daemon, process, op, arg, env, calls, starts, launches,
                       threads, alive>>

\* the application serving reads while the engine works on its tasks
NextReads ==
    \/ AddTorrentFile
    \/ PauseDownload
    \/ ResumeDownload
    \/ RemoveDownload
    \/ GetDownloads
    \/ GetDownload
    \/ EngineAdvances
    \/ Reply

SpecReads == Init /\ [][NextReads]_vars

(***************************************************************************)
(* retry_download called by request threads (app.run(threaded=True)): one  *)
(* action per remote call of a thread, the locals of the call in           *)
(* threads[th].  overlapped records that another retry was in flight       *)
(* during the call.                                                        *)
(***************************************************************************)
NoRetry ==
    [call |-> "none", pc |-> "idle", gid |-> 0, download |-> None,
     overlapped |-> FALSE, trace |-> <<>>, result |-> None]

InFlight(th) == threads[th].pc \notin {"idle", "done"}

\* a request thread enters retry_download(gid)
CallRetry ==
    \E th \in Threads, gid \in 1..MaxTasks :
        /\ op = "idle"
        /\ threads[th].pc = "idle"
        /\ threads' = [u \in Threads |->
                         IF u = th
                         THEN [threads[th] EXCEPT
                                 !.call = "retry", !.pc = "lookup", !.gid = gid,
                                 !.overlapped = \E v \in Threads \ {th} : InFlight(v)]
                         ELSE IF InFlight(u)
                         THEN [threads[u] EXCEPT !.overlapped = TRUE]
                         ELSE threads[u]]
        /\ UNCHANGED <<daemon, process, tasks, op, arg, env, calls, starts,
                       launches, alive>>

\* download = self.aria2.get_download(gid); if not download: return NOT_FOUND
RetryLookup ==
    \E th \in Threads, o \in QueryOutcomes :
        /\ threads[th].call = "retry"
        /\ threads[th].pc = "lookup"
        /\ LET g == gw_get_download(W, threads[th].gid, o)
               l == [threads[th] EXCEPT !.trace = Append(@, "aria2.tellStatus")]
           IN IF IsNone(g.result)
              THEN Returns(th, l, Failure("Download not found", "NOT_FOUND"))
              ELSE Goes(th, [l EXCEPT !.download = g.result, !.pc = "remove"])
        /\ UNCHANGED <<daemon, process, tasks, op, arg, env, calls, starts,
                       launches, alive>>

\* self.aria2.remove_download(gid, force=True); the result is not looked at
RetryRemove ==
    \E th \in Threads, o \in CallOutcomes :
        /\ threads[th].call = "retry"
        /\ threads[th].pc = "remove"
        /\ tasks' = gw_remove_download(W, threads[th].gid, TRUE, o).w.tasks
        /\ Goes(th, [threads[th] EXCEPT !.trace = Append(@, "aria2.forceRemove"),
                                        !.pc = "add"])
        /\ UNCHANGED <<daemon, process, op, arg, env, calls, starts, launches,
                       alive>>

\* result = self.add_magnet(download.url) or self.add_url(download.url), and
\* the return of its task_id or of its failure
RetryAdd ==
    \E th \in Threads, o \in CallOutcomes :
        /\ threads[th].call = "retry"
        /\ threads[th].pc = "add"
        /\ Len(tasks) <= MaxTasks
        /\ LET download == Val(threads[th].download)
               result == IF download.download_type = MAGNET
                         THEN add_magnet(W, download.url, None, o)
                         ELSE add_url(W, download.url, None, o)
               l == [threads[th] EXCEPT !.trace = Append(@, "aria2.addUri")]
           IN /\ tasks' = result.w.tasks
              /\ IF result.env.success
                 THEN Returns(th, l, [success |-> TRUE,
                                      task_id |-> result.env.task_id,
                                      message |-> t("messages.download_started")])
                 ELSE Returns(th, l, result.env)
        /\ UNCHANGED <<daemon, process, op, arg, env, calls, starts, launches,
                       alive>>

InitRetry ==
    /\ daemon \in BOOLEAN
    /\ process = 0
    /\ tasks = <<>>
    /\ op = "idle"
    /\ arg = <<>>
    /\ env = <<>>
    /\ calls = <<>>
    /\ starts = 0
    /\ launches = 0
    /\ threads = [th \in Threads |-> NoRetry]
    /\ alive = {}

\* the application adding tasks and serving retries on request threads
NextRetry ==
    \/ AddUrl
    \/ Reply
    \/ CallRetry
    \/ RetryLookup
    \/ RetryRemove
    \/ RetryAdd

SpecRetry == InitRetry /\ [][NextRetry]_vars

\* the application serving batch requests only
NextBatch ==
    \/ AddLongBatch
    \/ Reply
    \/ DaemonStops
    \/ DaemonComesUp

SpecBatch == Init /\ [][NextBatch]_vars

(***************************************************************************)
(* Properties                                                              *)
(***************************************************************************)
AddOps == {"add_url", "add_magnet", "add_torrent_file"}

\* whether the input of the add operation that ran last passes its validator
InputValid ==
    CASE op = "add_url" -> from_url(arg.url).is_valid
      [] op = "add_magnet" -> validate_magnet(arg.url)[1]
      [] op = "add_torrent_file" ->
            validate_torrent_file(arg.filename, arg.content)[1]

ValidationCode ==
    CASE op = "add_url" -> "INVALID_URL"
      [] op = "add_magnet" -> "INVALID_MAGNET"
      [] op = "add_torrent_file" -> "INVALID_TORRENT"

EchoedKind ==
    CASE op = "add_url" -> detect_download_type(Strip(arg.url))
      [] op = "add_magnet" -> "magnet"
      [] op = "add_torrent_file" -> "torrent"

Failed == ~env.success
FailedWith(code) == ~env.success /\ Has(env, "error_code") /\ env.error_code = code

\* C1: an add operation whose input fails validation returns a failure
\* envelope with the validation code of that operation (INVALID_URL,
\* INVALID_MAGNET, INVALID_TORRENT) and has issued no remote call.
C1_ValidationFailureIssuesNoCall ==
    (op \in AddOps /\ ~InputValid) =>
        /\ FailedWith(ValidationCode)
        /\ Has(env, "error")
        /\ calls = <<>>

\* an invalid input was refused while the daemon was there to be called
C1_Witness ==
    /\ op = "add_url"
    /\ ~InputValid
    /\ daemon
    /\ env.error_code = "INVALID_URL"

\* C2: an add operation whose input is valid issues its one add call; when
\* the call yields no handle the envelope fails with ARIA2_ERROR, when it
\* yields a handle the envelope succeeds with that handle (the gid of the
\* task the engine just created) as task_id and the kind echoed; ARIA2_ERROR
\* is never the code of a validation failure.
C2_AddOutcome ==
    op \in AddOps =>
        /\ InputValid =>
            /\ Len(calls) = 1
            /\ calls[1].method \in {"aria2.addUri", "aria2.addTorrent"}
            /\ IF calls[1].outcome = "ok"
               THEN /\ env.success
                    /\ env.task_id = Len(tasks)
                    /\ env.download_type = EchoedKind
               ELSE FailedWith("ARIA2_ERROR")
        /\ FailedWith("ARIA2_ERROR") => InputValid

\* a valid locator whose add call the running engine left unanswered
C2_Witness ==
    /\ op = "add_url"
    /\ InputValid
    /\ daemon
    /\ calls[1].outcome = "lost"
    /\ FailedWith("ARIA2_ERROR")

FoundUnreachable == \E i \in 1..Len(calls) : calls[i].outcome = "dropped"

\* C3: a facade operation that finds the engine unreachable and returns a
\* failure has made exactly one start_daemon() call.
C3_OneStartBeforeFailure ==
    (op \in FacadeOps /\ FoundUnreachable /\ Failed) => starts = 1

\* C4: every facade operation returns an envelope with a boolean success
\* field, and every envelope with success = false carries an error message
\* and an error_code.
C4_UniformEnvelope ==
    op \in FacadeOps =>
        /\ Has(env, "success")
        /\ env.success \in BOOLEAN
        /\ ~env.success => (Has(env, "error") /\ Has(env, "error_code"))

\* C5: get_download and retry_download return NOT_FOUND only when the engine
\* answered the status query and does not know the handle.
C5_NotFoundOnlyWhenEngineAnswered ==
    (op \in {"get_download", "retry_download"} /\ FailedWith("NOT_FOUND")) =>
        /\ calls[1].outcome = "ok"
        /\ ~Known(tasks, arg.gid)

\* C6: a listing of which some engine query returned no result is a failure
\* envelope, never success = true with the tasks of the missing response
\* left out.
C6_ListFailsOnMissingResponse ==
    (op = "get_downloads" /\ \E i \in 1..Len(calls) : calls[i].outcome # "ok")
        => Failed

SingleAddFailedUnavailable ==
    op' \in AddOps /\ ~env'.success /\ env'.error_code = "ARIA2_ERROR"

\* C7 as claimed: an add operation that fails because its remote call
\* returned no result has left the engine's tasks as they were, whatever
\* the cause of "no result".
C7_NoResultMeansNoEffect ==
    [][SingleAddFailedUnavailable => tasks' = tasks]_vars

\* C7: an add operation that fails because its remote call returned no
\* result has left the engine's tasks as they were when the request was
\* never delivered; when the engine processed the request and the response
\* was lost or timed out, the engine holds the one task the call created
\* although the envelope reports ARIA2_ERROR.
C7_NoResultNoEffectUnlessLost ==
    [][SingleAddFailedUnavailable =>
         IF calls'[1].outcome = "lost"
         THEN /\ Len(tasks') = Len(tasks) + 1
              /\ SubSeq(tasks', 1, Len(tasks)) = tasks
         ELSE tasks' = tasks]_vars

\* an add call the engine processed and whose response was lost
C7_Witness ==
    /\ op \in AddOps
    /\ FailedWith("ARIA2_ERROR")
    /\ calls[1].outcome = "lost"
    /\ tasks # <<>>

\* retry_download got past its lookup: the engine knows the handle
RetryFoundTask == op = "retry_download" /\ Len(calls) >= 2

Live(ts, gid) == Known(ts, gid) /\ ts[gid].status # "removed"

\* C8: when retry_download returns for a handle the engine knows, the old
\* handle is no longer a live task of the engine, whether or not the
\* re-submission succeeded.
C8_OldHandleGoneAfterRetry ==
    RetryFoundTask => ~Live(tasks, arg.gid)

\* C9: a successful retry_download returns a task_id different from the
\* handle passed in, the task of which has the locator of the old task (the
\* engine hands out no gid twice).
C9_RetryYieldsNewHandle ==
    (op = "retry_download" /\ env.success) =>
        /\ env.task_id # arg.gid
        /\ Known(tasks, env.task_id)
        /\ tasks[env.task_id].files[1].uris = tasks[arg.gid].files[1].uris

\* a retry that succeeded
C9_Witness ==
    /\ op = "retry_download"
    /\ env.success
    /\ tasks[arg.gid].status = "removed"

\* the lookup of retry_download on gid yields no task: the status query is
\* not answered, or the engine does not know the handle
LookupYieldsNone == calls'[1].outcome # "ok" \/ ~Known(tasks, arg'.gid)

\* C10: retry_download on a handle whose lookup yields no task returns the
\* NOT_FOUND envelope, has issued the status query and no other call, and
\* leaves the engine's tasks unchanged.
C10_RetryAbsentChangesNothing ==
    [][(op' = "retry_download" /\ LookupYieldsNone) =>
         /\ env' = Failure("Download not found", "NOT_FOUND")
         /\ Len(calls') = 1
         /\ calls'[1].method = "aria2.tellStatus"
         /\ tasks' = tasks]_vars

\* a retry whose status query on a live task went unanswered
C10_Witness ==
    /\ op = "retry_download"
    /\ FailedWith("NOT_FOUND")
    /\ daemon
    /\ Live(tasks, arg.gid)

\* the kind a task was created as: the engine holds no uri for a task made
\* from a torrent file, and the locator the task was made from otherwise
CreatedKind(rec) ==
    IF rec.files[1].uris = <<>> THEN TORRENT
    ELSE detect_download_type(Strip(rec.files[1].uris[1].uri))

\* C11: a retry_download that found its task re-submits the locator the task
\* was created from, which is not empty, through the add flow of the task's
\* kind: a magnet task by addUri with the BitTorrent options, a task made
\* from a torrent file by addTorrent with the BitTorrent options, any other
\* task by addUri with the options of the URL flow.
C11_RetryUsesFlowOfKind ==
    RetryFoundTask =>
        LET rec == tasks[arg.gid]
            kind == CreatedKind(rec)
        IN /\ Len(calls) = 3
           /\ IF kind = TORRENT
              THEN /\ calls[3].method = "aria2.addTorrent"
                   /\ calls[3].params[3] = DefaultBtOptions
              ELSE /\ calls[3].method = "aria2.addUri"
                   /\ calls[3].params[1] = <<rec.files[1].uris[1].uri>>
                   /\ rec.files[1].uris[1].uri # <<>>
                   /\ calls[3].params[2] =
                        IF kind = MAGNET THEN DefaultBtOptions
                        ELSE DefaultDownloadOptions(
                                 from_url(rec.files[1].uris[1].uri))

\* the items of the batch that ran last: its non-blank locators, validated
BatchItems == validate_url_list(arg.urls)

Succeeded(results) == {i \in 1..Len(results) : results[i].success}

C13_BatchKeepsEveryLocator ==
    (op = "add_batch_urls" /\ arg.urls # <<>>) =>
        /\ Has(env, "results")
        /\ Len(env.results) = Len(arg.urls)
        /\ env.total_count = Len(arg.urls)
        /\ \A i \in 1..Len(arg.urls) :
              /\ env.results[i].url = Strip(arg.urls[i])
              /\ ~from_url(arg.urls[i]).is_valid =>
                    /\ ~env.results[i].success
                    /\ env.results[i].error = from_url(arg.urls[i]).error_message

\* C14: a start_daemon() whose health probe is answered launches no
\* process and returns true; of two calls in sequence whose probes are both
\* answered neither launches a process and both return true.
C14_StartIdempotent ==
    /\ (op = "start_daemon" /\ calls[1].outcome = "ok") =>
          /\ launches = 0
          /\ env.result = TRUE
          /\ Len(calls) = 1
    /\ (op = "start_daemon_twice" /\ calls[1].outcome = "ok"
           /\ calls[2].outcome = "ok") =>
          /\ launches = 0
          /\ env = [first |-> TRUE, second |-> TRUE]
          /\ Len(calls) = 2

\* two calls in sequence on a healthy engine that was launched before
C14_Witness ==
    /\ op = "start_daemon_twice"
    /\ process = 1
    /\ calls[1].outcome = "ok"
    /\ calls[2].outcome = "ok"
    /\ starts = 2

SecretConfigured == ~IsNone(arg.rpc_secret) /\ Val(arg.rpc_secret) # ""

\* C15: the parameter list a remote call sends is, when a secret is
\* configured, the token followed by the method's parameters in their order
\* (one element more than the method's parameters, so the token is there
\* once), and the method's parameters unchanged when none is configured.
C15_TokenFirstOnce ==
    op = "rpc_call" =>
        /\ Len(calls) = 1
        /\ calls[1].method = arg.method
        /\ IF SecretConfigured
           THEN /\ Len(calls[1].params) = Len(arg.params) + 1
                /\ Tail(calls[1].params) = arg.params
                /\ Head(calls[1].params) = <<"token:", Val(arg.rpc_secret)>>
           ELSE calls[1].params = arg.params

\* a call with two parameters of its own sent under a configured secret
C15_Witness ==
    /\ op = "rpc_call"
    /\ SecretConfigured
    /\ Len(arg.params) = 2
    /\ Len(calls[1].params) = 3

\* C16: rpc_call returns None on a transport failure, on a response that
\* is not valid JSON and on a response with an error field, and the result
\* payload of the response otherwise.
C16_NoResultUnlessAnswered ==
    [][op' = "rpc_call" =>
         LET reply == Engine(arg'.method, arg'.params, tasks) IN
           env' = IF calls'[1].outcome = "ok" /\ ~reply.error
                  THEN <<reply.result>> ELSE <<>>]_vars

\* a response that was not valid JSON, and an error response
C16_Witness ==
    /\ op = "rpc_call"
    /\ env = <<>>
    /\ calls[1].outcome = "garbled"

\* the engine's records a listing of the given status covers, in the order
\* the engine answers them
Listed(ts, status) ==
    LET active == SelectSeq(ts, LAMBDA r : r.status = "active")
        waiting == SelectSeq(ts, LAMBDA r : r.status \in {"waiting", "paused"})
        stopped == SelectSeq(ts, LAMBDA r :
                               r.status \in {"complete", "error", "removed"})
    IN CASE status = "all" -> active \o waiting \o stopped
         [] status = "active" -> active
         [] status = "waiting" -> waiting
         [] status = "stopped" -> stopped
         [] OTHER -> <<>>

\* C17: a listing all of whose queries were answered returns the tasks of
\* the engine's records that match the category (all of them when category
\* is empty), in engine order, cut to the first limit entries when
\* limit > 0 and uncut otherwise, the cut applied after the filter; count is
\* the number of tasks returned.
C17_ListFiltersThenCaps ==
    (op = "get_downloads" /\ \A i \in 1..Len(calls) : calls[i].outcome = "ok") =>
        LET listed == Listed(tasks, arg.status)
            all == [i \in 1..Len(listed) |-> to_dict(from_aria2_response(listed[i]))]
            matching == IF arg.category = "" THEN all
                        ELSE SelectSeq(all, LAMBDA d : d.category = arg.category)
            n == IF arg.limit > 0 /\ arg.limit < Len(matching)
                 THEN arg.limit ELSE Len(matching)
        IN /\ env.success
           /\ env.downloads = SubSeq(matching, 1, n)
           /\ env.count = Len(env.downloads)

\* a capped, filtered listing whose first engine record is filtered out
C17_Witness ==
    /\ op = "get_downloads"
    /\ arg.category = "other"
    /\ arg.limit = 1
    /\ arg.status = "all"
    /\ Len(calls) = 3
    /\ \A i \in 1..3 : calls[i].outcome = "ok"
    /\ Len(tasks) = 2
    /\ get_file_category(LastSegment(Listed(tasks, "all")[1].files[1].path)) = "archive"
    /\ env.count = 1

\* the value computed for a key when no override names it
ComputedValue(url_info, k) ==
    CASE k = "dir" -> "downloads"
      [] k = "out" -> url_info.file_name
      [] k = "user-agent" -> "Universal Download Manager/1.0"
      [] k \in {"max-connection-per-server", "split"} ->
            IF url_info.download_type \in {"http", "https"} THEN "4" ELSE "1"
      [] k = "timeout" -> "60"
      [] k = "max-tries" -> "3"
      [] k = "retry-wait" -> "5"

ComputedBtValue(k) ==
    CASE k = "dir" -> "downloads"
      [] k = "bt-max-peers" -> "50"
      [] k = "seed-ratio" -> "1.0"
      [] k = "seed-time" -> "60"
      [] k \in {"enable-dht", "enable-peer-exchange", "bt-enable-lpd"} -> "true"

\* C18: in the options either builder returns, every key of the overrides
\* has the caller's value, every other key has its computed value (split
\* and max-connection-per-server the configured 4 for http/https and 1 for
\* ftp/ftps, absent for other kinds), and no computed key is missing.
C18_OverridesWin ==
    /\ op = "prepare_download_options" =>
          /\ \A k \in DOMAIN arg.custom_options : env[k] = arg.custom_options[k]
          /\ \A k \in DOMAIN env \ DOMAIN arg.custom_options :
                env[k] = ComputedValue(arg.url_info, k)
          /\ {"dir", "user-agent", "timeout", "max-tries", "retry-wait"}
                \subseteq DOMAIN env
          /\ arg.url_info.download_type \in {"http", "https", "ftp", "ftps"} =>
                {"max-connection-per-server", "split"} \subseteq DOMAIN env
    /\ op = "prepare_bt_options" =>
          /\ \A k \in DOMAIN arg.custom_options : env[k] = arg.custom_options[k]
          /\ \A k \in DOMAIN env \ DOMAIN arg.custom_options :
                env[k] = ComputedBtValue(k)
          /\ {"dir", "bt-max-peers", "seed-ratio", "seed-time", "enable-dht",
              "enable-peer-exchange", "bt-enable-lpd"} \subseteq DOMAIN env

\* overrides that collide with computed keys of an FTP locator
C18_Witness ==
    /\ op = "prepare_download_options"
    /\ arg.url_info.download_type = "ftp"
    /\ DOMAIN arg.custom_options = {"dir", "split"}
    /\ env["split"] = "custom"
    /\ env["max-connection-per-server"] = "1"

\* the kind of a stripped locator by the precedence of the claim
KindByPrecedence(url) ==
    IF url = <<>> THEN "http"
    ELSE LET scheme == Lower(url[1]) IN
         CASE scheme = "magnet:" -> "magnet"
           [] scheme = "https:" -> "https"
           [] scheme = "http:" -> "http"
           [] scheme = "ftps:" -> "ftps"
           [] scheme = "ftp:" -> "ftp"
           [] OTHER -> IF Lower(url[Len(url)]) = ".torrent" THEN "torrent"
                       ELSE "http"

\* C19: from_url detects the kind by the first match among magnet:, https:,
\* http:, ftps:, ftp: (any letter case), then a .torrent suffix, and http
\* otherwise; an HTTP(S) URL matching the URL grammar is valid with its
\* kind; a magnet locator with an xt= parameter is valid whatever the letter
\* case of its scheme.
C19_ClassifyAndValidate ==
    op = "from_url" =>
        LET url == Strip(arg.url) IN
        /\ env.download_type = KindByPrecedence(url)
        /\ MatchHttp(url) =>
              /\ env.is_valid
              /\ env.download_type = (IF Lower(url[1]) = "https:" THEN "https"
                                       ELSE "http")
        /\ (url # <<>> /\ Lower(url[1]) = "magnet:" /\ Contains(url, "xt=")) =>
              env.is_valid

\* C20: the progress of a reconciled task is 0.0 when total_length is 0 and
\* otherwise the tenth nearest to completed_length / total_length * 100,
\* both counters being those of the record it was made from.
C20_ProgressFromCounters ==
    (op = "from_aria2_response" /\ ~env.raised) =>
        LET total == IF Has(arg, "totalLength")
                     THEN ParseInt(arg.totalLength) ELSE 0
            completed == IF Has(arg, "completedLength")
                         THEN ParseInt(arg.completedLength) ELSE 0
            d == env.progress * total - 1000 * completed
        IN /\ env.total_length = total
           /\ env.completed_length = completed
           /\ total = 0 => env.progress = 0
           /\ total > 0 => (2 * d <= total /\ -2 * d <= total)
           /\ (total = 200 /\ completed = 50) => env.progress = 250

\* total = 200 and completed = 50 give 25.0
C20_Witness ==
    /\ op = "from_aria2_response"
    /\ ~env.raised
    /\ env.total_length = 200
    /\ env.completed_length = 50
    /\ env.progress = 250

\* C21: every task returned by from_aria2_response has
\* 0 <= completed_length <= total_length and 0.0 <= progress <= 100.0,
\* whatever the counters of the engine record.
C21_CountersInRange ==
    (op = "from_aria2_response" /\ ~env.raised) =>
        /\ 0 <= env.completed_length
        /\ env.completed_length <= env.total_length
        /\ 0 <= env.progress
        /\ env.progress <= 1000

\* the call of a thread is a start_daemon whose first probe failed
ProbeFailed(l) ==
    /\ l.call = "start"
    /\ \/ l.pc \in {"launch", "poll"}
       \/ l.pc = "done" /\ (l.launched > 0 \/ l.raised)

\* the polling window of a start_daemon that has launched its process: the
\* polls stop at the first that succeeds and at the 30th
PollsBounded(l) ==
    /\ l.launched = 1
    /\ l.polls <= POLLS
    /\ l.pc = "poll" => (l.polls < POLLS /\ l.last # "ok")
    /\ (l.pc = "done" /\ l.result = Some(TRUE)) => (l.polls >= 1 /\ l.last = "ok")
    /\ (l.pc = "done" /\ l.result = Some(FALSE)) =>
          (l.polls = POLLS /\ l.last = "none")

StartReturns ==
    \A th \in Threads :
        (threads[th].call = "start") ~> (threads[th].pc = "done")

Signals == {"SIGTERM", "SIGKILL"}

\* the order of the remote calls and signals of one stop_daemon
EscalationOrder(l) ==
    /\ \A i, j \in 1..Len(l.trace) :
          (l.trace[i] = "aria2.shutdown" /\ l.trace[j] \in Signals) => i < j
    /\ \A j \in 1..Len(l.trace) :
          l.trace[j] = "SIGKILL" => \E i \in 1..(j - 1) : l.trace[i] = "SIGTERM"
    /\ l.pc \notin {"probe", "shutdown"} =>
          (Contains(l.trace, "aria2.shutdown") <=> l.last = "ok")
    /\ l.pc = "done" => (l.result = Some(TRUE) <=> ~l.raised)

\* thread th sends a signal in this step
Sends(th, sig) ==
    /\ Len(threads'[th].trace) = Len(threads[th].trace) + 1
    /\ threads'[th].trace[Len(threads'[th].trace)] = sig

\* C24: in every stop_daemon the shutdown call, made exactly when the probe
\* succeeded, precedes every signal; SIGTERM goes to the process group only
\* while a handle is held and its process is alive; SIGKILL is sent only
\* after SIGTERM and while the process is still alive; the call returns
\* true unless an exception was raised, a failed shutdown call included.
C24_StopEscalates ==
    /\ [](\A th \in Threads :
            threads[th].call = "stop" => EscalationOrder(threads[th]))
    /\ [][\A th \in Threads :
            (Sends(th, "SIGTERM") \/ Sends(th, "SIGKILL")) =>
                (process # 0 /\ process \in alive)]_vars

\* a stop_daemon that went through the whole escalation
C24_Witness ==
    \E th \in Threads :
        /\ threads[th].pc = "done"
        /\ threads[th].trace =
              <<"aria2.getVersion", "aria2.shutdown", "SIGTERM", "SIGKILL">>
        /\ threads[th].result = Some(TRUE)

\* C25: a stop_daemon that holds no process handle while the daemon answers
\* makes the shutdown call and, when the daemon is still running after it,
\* a forceful shutdown call; it sends no signal and returns true.
C25_StopWithoutHandleForcesShutdown ==
    \A th \in Threads :
        (/\ threads[th].call = "stop"
         /\ threads[th].pc = "done"
         /\ process = 0
         /\ threads[th].last = "ok")
        => /\ Contains(threads[th].trace, "aria2.shutdown")
           /\ \A i \in 1..Len(threads[th].trace) :
                 threads[th].trace[i] \notin Signals
           /\ threads[th].result = Some(TRUE)
           /\ daemon => Contains(threads[th].trace, "aria2.forceShutdown")

\* the valid items of the batch that ran last, in input order
ValidItems == SelectSeq(BatchItems, LAMBDA url_info : url_info.is_valid)

\* C26: add_batch_urls issues one addUri call per valid item and none for
\* an invalid one, in the order of the items; every call has its outcome
\* before the next is issued, so the handles of the items accepted rise in
\* input order.
C26_BatchCallsInInputOrder ==
    (op = "add_batch_urls" /\ BatchItems # <<>>) =>
        /\ Len(calls) = Len(ValidItems)
        /\ \A i \in 1..Len(calls) :
              /\ calls[i].method = "aria2.addUri"
              /\ calls[i].params[1] = <<ValidItems[i].url>>
        /\ \A i, j \in Succeeded(env.results) :
              i < j => env.results[i].task_id < env.results[j].task_id
        /\ \A i \in Succeeded(env.results) :
              /\ Known(tasks, env.results[i].task_id)
              /\ tasks[env.results[i].task_id].files[1].uris[1].uri
                    = env.results[i].url

\* a batch of two different valid locators and an invalid one between them
C26_Witness ==
    /\ op = "add_batch_urls"
    /\ arg.urls = <<UrlMagnet, UrlPlain, UrlHttp>>
    /\ Len(calls) = 2
    /\ calls[1].outcome = "lost"
    /\ calls[2].outcome = "ok"

\* the engine's record can be reconciled
WellFormed(rec) == ~from_aria2_response(rec).raised

\* C27: a listing all of whose queries were answered returns the tasks of
\* every record of the engine that can be reconciled, in engine order
\* (active, then waiting, then stopped for "all"), and leaves out the
\* records that cannot; the category filter and the limit apply to those.
C27_ListSkipsMalformed ==
    (op = "get_downloads" /\ \A i \in 1..Len(calls) : calls[i].outcome = "ok") =>
        LET listed == SelectSeq(Listed(tasks, arg.status), WellFormed)
            all == [i \in 1..Len(listed) |-> to_dict(from_aria2_response(listed[i]))]
            matching == IF arg.category = "" THEN all
                        ELSE SelectSeq(all, LAMBDA d : d.category = arg.category)
            n == IF arg.limit > 0 /\ arg.limit < Len(matching)
                 THEN arg.limit ELSE Len(matching)
        IN /\ env.success
           /\ env.downloads = SubSeq(matching, 1, n)
           /\ env.count = n

\* a listing of all tasks of which one cannot be reconciled and one can
C27_Witness ==
    /\ op = "get_downloads"
    /\ arg.status = "all"
    /\ arg.limit = TELL_NUM
    /\ \A i \in 1..Len(calls) : calls[i].outcome = "ok"
    /\ Len(tasks) = 2
    /\ ~WellFormed(tasks[1])
    /\ WellFormed(tasks[2])
    /\ env.count = 1
    /\ env.downloads[1].gid = 2

\* C28: a get_download whose query was answered returns the task
\* reconciled from the record the engine holds for the handle now, and no
\* task when the engine holds no record that can be reconciled; nothing
\* seen by an earlier read is returned in its place.
C28_ReadsAreFresh ==
    (op = "get_download" /\ calls[1].outcome = "ok") =>
        IF Known(tasks, arg.gid) /\ WellFormed(tasks[arg.gid])
        THEN /\ env.success
             /\ env.download = to_dict(from_aria2_response(tasks[arg.gid]))
        ELSE ~env.success

\* a task read after the engine completed it
C28_Witness ==
    /\ op = "get_download"
    /\ calls[1].outcome = "ok"
    /\ env.success
    /\ env.download.status = "complete"
    /\ env.download.progress = 1000

\* the schemes the classifier recognises
RecognisedSchemes == {"magnet:", "http:", "https:", "ftp:", "ftps:"}

HasRecognisedScheme(url) == url # <<>> /\ Lower(url[1]) \in RecognisedSchemes

\* C29: add_url makes a remote add call only for a locator that begins
\* with a recognised scheme; a string that is classified as a torrent only
\* because it ends in ".torrent" is never submitted.
C29_OnlySchemedLocatorsSubmitted ==
    (op = "add_url" /\ \E i \in 1..Len(calls) : calls[i].method = "aria2.addUri") =>
        HasRecognisedScheme(Strip(arg.url))

\* the retries of thread a and thread b ran at the same time on one handle
\* and both have returned
ConcurrentRetries(a, b) ==
    /\ a # b
    /\ threads[a].call = "retry" /\ threads[b].call = "retry"
    /\ threads[a].pc = "done" /\ threads[b].pc = "done"
    /\ threads[a].gid = threads[b].gid
    /\ threads[a].overlapped /\ threads[b].overlapped

\* C30: of two retries of one handle that run at the same time at most one
\* creates a replacement task.
C30_ConcurrentRetriesReplaceOnce ==
    \A a, b \in Threads :
        ConcurrentRetries(a, b) =>
            ~(Val(threads[a].result).success /\ Val(threads[b].result).success)

====
